---------------------------- MODULE Spec2Model ----------------------------
(***************************************************************************)
(* A model of src/bot.py: the rate limiter / ban manager                   *)
(* (check_user_limit, ban_user, unban_user, reset_user_limits,             *)
(* reset_bans), the access control (AccessManager) and the cached-file     *)
(* freshness logic (preload_latest_file, handle_search, refresh_file).     *)
(*                                                                         *)
(* Conventions.                                                            *)
(*  - A Python str is a sequence of one-character strings, so that         *)
(*    lower(), strip() and replace() are computed character by character.  *)
(*  - A Python dict is a function whose DOMAIN is the set of its keys.     *)
(*  - A datetime is an integer number of seconds; a handler runs at one    *)
(*    instant `now` (the successive datetime.now() calls of one handler    *)
(*    are taken at the same instant).                                      *)
(*  - An Optional value is <<>> (None) or <<v>>.                            *)
(***************************************************************************)
EXTENDS Integers, Sequences, FiniteSets, TLC

VARIABLES
    now,                    \* the wall clock, seconds (true UTC instant)
    user_activity,          \* bot.py:84  dict username -> {minute, hour, day} deques
    banned_users,           \* bot.py:91  set of usernames
    user_ban_times,         \* bot.py:93  dict username -> minutes
    user_ban_start_times,   \* bot.py:95  dict username -> datetime
    whitelist,              \* AccessManager.whitelist (bot.py:196)
    blacklist,              \* AccessManager.blacklist (bot.py:195)
    LAST_FILE_ID,           \* bot.py:61
    LAST_FILE_DATE,         \* bot.py:63
    LAST_FILE_DRIVE_TIME,   \* bot.py:65
    LAST_FILE_LOCAL_PATH,   \* bot.py:67
    remote,                 \* the Drive: logical date -> [mtime, version] of the dated file
    localfs,                \* ./local_cache: local path (= logical date) -> [mtime, content]
    last,                   \* the last operation: what it was, for whom, what it returned
    replies,                \* the reply_text calls of the last handler, in order
    ban_count,              \* history: username -> calls of ban_user for it since the
                            \* process started or an admin last reset it
    budget,                 \* what is left of the run's bounds: [msgs, ticks]
    tasks,                  \* the handle_search coroutines suspended at an await:
                            \* task id -> where it resumes and what it has done
    environ,                \* os.environ: the names of the variables that are set
    accepted_calls          \* history: username -> the instants of its calls of
                            \* check_user_limit that returned True since the process
                            \* started or an admin last reset it, kept per period
                            \* like the windows

vars == << now, user_activity, banned_users, user_ban_times, user_ban_start_times,
           whitelist, blacklist, LAST_FILE_ID, LAST_FILE_DATE, LAST_FILE_DRIVE_TIME,
           LAST_FILE_LOCAL_PATH, remote, localfs, last, replies, ban_count, budget,
           tasks, environ, accepted_calls >>

rateVars == << user_activity, banned_users, user_ban_times, user_ban_start_times >>
accessVars == << whitelist, blacklist >>
cacheVars == << LAST_FILE_ID, LAST_FILE_DATE, LAST_FILE_DRIVE_TIME, LAST_FILE_LOCAL_PATH >>
envVars == << remote, localfs >>

\* the environment variables init_config and get_credentials_path read
EnvNames ==
    {"GOOGLE_CREDS_BASE64", "TELEGRAM_TOKEN", "PARENT_FOLDER_ID", "TEMP_FOLDER_ID",
     "BLACKLIST_FILE_ID", "WHITELIST_FILE_ID", "TIMEZONE_OFFSET"}

None == << >>

Some(v) == << v >>

-----------------------------------------------------------------------------
(* Python str, dict *)

\* str.lower(), one character (ASCII letters)
UpperToLower ==
    [A |-> "a", B |-> "b", C |-> "c", D |-> "d", E |-> "e", F |-> "f", G |-> "g",
     H |-> "h", I |-> "i", J |-> "j", K |-> "k", L |-> "l", M |-> "m", N |-> "n",
     O |-> "o", P |-> "p", Q |-> "q", R |-> "r", S |-> "s", T |-> "t", U |-> "u",
     V |-> "v", W |-> "w", X |-> "x", Y |-> "y", Z |-> "z"]

LowerChar(c) == IF c \in DOMAIN UpperToLower THEN UpperToLower[c] ELSE c

\* str.lower()
Lower(s) == [i \in 1..Len(s) |-> LowerChar(s[i])]

Whitespace == {" ", "\t"}

RECURSIVE LStrip(_)
\* the left half of str.strip()
LStrip(s) == IF s # <<>> /\ Head(s) \in Whitespace THEN LStrip(Tail(s)) ELSE s

RECURSIVE RStrip(_)
\* the right half of str.strip()
RStrip(s) ==
    IF s # <<>> /\ s[Len(s)] \in Whitespace THEN RStrip(SubSeq(s, 1, Len(s) - 1)) ELSE s

\* str.strip()
Strip(s) == RStrip(LStrip(s))

\* str.replace('@', ''): every '@' goes
RemoveAt(s) == SelectSeq(s, LAMBDA c : c # "@")

RECURSIVE LStripAt(_)
\* str.lstrip('@'): every leading '@' goes
LStripAt(s) == IF s # <<>> /\ Head(s) = "@" THEN LStripAt(Tail(s)) ELSE s

EmptyDict == [k \in {} |-> 0]

\* dict.get(k, default)
DictGet(d, k, default) == IF k \in DOMAIN d THEN d[k] ELSE default

\* d[k] = v
DictSet(d, k, v) == (k :> v) @@ d

\* d.pop(k, None)
DictPop(d, k) == [x \in (DOMAIN d) \ {k} |-> d[x]]

-----------------------------------------------------------------------------
(* Access control: AccessManager *)

ALLOWED_USERS ==
    { <<"t","u","p","i","k","i","n","_","i","k">>,
      <<"y","o","p","t","v","a","y","o","u">> }

\* {u.lower() for u in ALLOWED_USERS}
AdminSet == { Lower(u) : u \in ALLOWED_USERS }

\* an admin test that only asks for a handle
IsAdmin_AnyHandle(username) == username # <<>>

\* the admin test of the command handlers:
\* user.username and user.username.lower() in {u.lower() for u in ALLOWED_USERS}
IsAdmin(username) == username # <<>> /\ Lower(username) \in AdminSet

\* is_allowed with the deny-list consulted before the admin set
is_allowed_DenyFirst(username, bl, wl) ==
    IF username = <<>> THEN FALSE
    ELSE LET username_lower == Lower(username) IN
         IF username_lower \in bl THEN FALSE
         ELSE IF username_lower \in AdminSet THEN TRUE
         ELSE IF wl # {} /\ username_lower \notin wl THEN FALSE
         ELSE TRUE

\* is_allowed that does not look at the deny-list
is_allowed_NoDenyList(username, bl, wl) ==
    IF username = << >> THEN FALSE
    ELSE LET username_lower == Lower(username) IN
         IF username_lower \in AdminSet THEN TRUE
         ELSE IF wl # {} /\ username_lower \notin wl THEN FALSE
         ELSE TRUE

\* AccessManager.is_allowed
is_allowed(username, bl, wl) ==
    IF username = <<>> THEN FALSE
    ELSE LET username_lower == Lower(username) IN
         IF username_lower \in AdminSet THEN TRUE
         ELSE IF username_lower \in bl THEN FALSE
         ELSE IF wl # {} /\ username_lower \notin wl THEN FALSE
         ELSE TRUE

\* a cleaning that takes one leading '@' off the trimmed line
CleanLine_OneLeadingAt(line) ==
    LET t == Lower(Strip(line)) IN
    IF t # << >> /\ Head(t) = "@" THEN Tail(t) ELSE t

\* download_list, one line of the file: line.strip().lower().replace('@', '')
CleanLine(line) == RemoveAt(Lower(Strip(line)))

\* download_list: the usernames of the file's lines, empty ones dropped;
\* a failed download gives []
download_list(lines, ok) ==
    IF ok THEN { CleanLine(l) : l \in lines } \ { <<>> } ELSE {}

\* FileManager.update_list_file: the lines of the file after the write of
\* "\n".join([f"@{u}" for u in usernames]) + "\n", as splitlines gives them
update_list_file(usernames) ==
    IF usernames = {} THEN { << >> } ELSE { << "@" >> \o u : u \in usernames }

-----------------------------------------------------------------------------
(* Rate limiter / ban manager *)

MESSAGE_LIMITS == [minute |-> 10, hour |-> 100, day |-> 1000]

\* timedelta(**{period + 's': 1}), in seconds
PeriodSeconds(period) ==
    CASE period = "minute" -> 60
      [] period = "hour"   -> 60 * 60
      [] period = "day"    -> 24 * 60 * 60

\* timedelta(minutes=m), in seconds
Minutes(m) == m * 60

\* the default of user_ban_times.get(username, 10)
DEFAULT_BAN_TIME == 10

\* the step of ban_user: user_ban_times[username] = ban_time + 10
BAN_TIME_STEP == 10

\* the value of the defaultdict user_activity for a new key
EmptyActivity == [minute |-> <<>>, hour |-> <<>>, day |-> <<>>]

\* user_activity[username] read without creating the key
Activity(ua, username) == IF username \in DOMAIN ua THEN ua[username] ELSE EmptyActivity

\* an eviction that keeps the timestamp aged exactly one period
Stale_Strict(ts, t, delta) == ts < t - delta

\* queue[0] <= now - delta
Stale(ts, t, delta) == ts <= t - delta

RECURSIVE PopStale(_, _, _)
\* while queue and queue[0] <= now - delta: queue.popleft()
PopStale(queue, t, delta) ==
    IF queue # <<>> /\ Stale(Head(queue), t, delta)
    THEN PopStale(Tail(queue), t, delta)
    ELSE queue

\* the eviction loop of check_user_limit over the three periods
Evict(act, t) ==
    [minute |-> PopStale(act.minute, t, PeriodSeconds("minute")),
     hour   |-> PopStale(act.hour, t, PeriodSeconds("hour")),
     day    |-> PopStale(act.day, t, PeriodSeconds("day"))]

\* mutant of LimitReached: the comparison is strict
LimitReached_Strict(n, limit) == n > limit

\* len(user_activity[username][period]) >= limit
LimitReached(n, limit) == n >= limit

\* mutant of OverLimit: only the minute window is compared with its limit
OverLimit_MinuteOnly(act) == LimitReached(Len(act.minute), MESSAGE_LIMITS.minute)

\* the limit loop of check_user_limit: some period is at its limit
OverLimit(act) ==
    \E p \in DOMAIN MESSAGE_LIMITS : LimitReached(Len(act[p]), MESSAGE_LIMITS[p])

\* a recording that appends the timestamp to the minute window alone
Record_MinuteOnly(act, t) ==
    [minute |-> Append(act.minute, t), hour |-> act.hour, day |-> act.day]

\* for period in MESSAGE_LIMITS.keys(): user_activity[username][period].append(now)
Record(act, t) ==
    [minute |-> Append(act.minute, t),
     hour   |-> Append(act.hour, t),
     day    |-> Append(act.day, t)]

\* ban_user: what it stores in user_ban_times
NewBanTime(bt, username) == DictGet(bt, username, DEFAULT_BAN_TIME) + BAN_TIME_STEP

\* The limiter's tables as one value: ua = user_activity, bu = banned_users,
\* bt = user_ban_times, bs = user_ban_start_times.
RateState(ua, bu, bt, bs) == [ua |-> ua, bu |-> bu, bt |-> bt, bs |-> bs]

\* a ban that falls on every identity of the activity table
ban_user_Everyone(S, username, t) ==
    [S EXCEPT !.bt = DictSet(@, username, NewBanTime(@, username)),
              !.bs = [v \in DOMAIN S.ua \cup DOMAIN @ \cup {username} |-> t],
              !.bu = @ \cup DOMAIN S.ua \cup {username}]

ban_user(S, username, t) ==
    [S EXCEPT !.bt = DictSet(@, username, NewBanTime(@, username)),
              !.bs = DictSet(@, username, t),
              !.bu = @ \cup {username}]

unban_user(S, username) ==
    [S EXCEPT !.bu = @ \ {username},
              !.bs = DictPop(@, username),
              !.bt = DictPop(@, username)]

\* now >= ban_start + ban_duration
BanExpired(t, ban_start, ban_minutes) == t >= ban_start + Minutes(ban_minutes)

\* mutant of StillBanned: a refused attempt starts the ban again
StillBanned_Restart(S, username, t) == [S EXCEPT !.bs = DictSet(@, username, t)]

\* the branch of check_user_limit for a ban that has not expired:
\* it logs the minutes left and returns False
StillBanned(S, username, t) == S

\* the branch of check_user_limit for an expired ban: unban_user, the two
\* pops again, return True
AutoUnban(S, username, t) ==
    LET U == unban_user(S, username) IN
    [U EXCEPT !.bs = DictPop(@, username), !.bt = DictPop(@, username)]

\* check_user_limit(username) at instant t: the tables after the call and
\* the value returned
check_user_limit(S, username, t) ==
    IF username \in S.bu
    THEN IF username \in DOMAIN S.bs
         THEN IF BanExpired(t, S.bs[username], DictGet(S.bt, username, DEFAULT_BAN_TIME))
              THEN [S |-> AutoUnban(S, username, t), ret |-> TRUE]
              ELSE [S |-> StillBanned(S, username, t), ret |-> FALSE]
         ELSE [S |-> unban_user(S, username), ret |-> TRUE]
    ELSE LET act == Evict(Activity(S.ua, username), t)
             S1  == [S EXCEPT !.ua = DictSet(@, username, act)]
         IN  IF OverLimit(act)
             THEN [S |-> ban_user(S1, username, t), ret |-> FALSE]
             ELSE [S |-> [S1 EXCEPT !.ua = DictSet(@, username, Record(act, t))],
                   ret |-> TRUE]

\* the history of accepted calls after a call of check_user_limit(username)
\* at instant t that returned ret
Accepted(acc, username, t, ret) ==
    IF ret THEN DictSet(acc, username, Record(Evict(Activity(acc, username), t), t))
    ELSE acc

\* a reset that forgets the ban start and keeps the ban duration
reset_user_limits_StartOnly(S, username) ==
    [S EXCEPT !.ua = IF username \in DOMAIN @
                     THEN DictSet(@, username, [minute |-> <<>>, hour |-> <<>>, day |-> <<>>])
                     ELSE @,
              !.bs = DictPop(@, username)]

reset_user_limits(S, username) ==
    [S EXCEPT !.ua = IF username \in DOMAIN @
                     THEN DictSet(@, username, [minute |-> <<>>, hour |-> <<>>, day |-> <<>>])
                     ELSE @,
              !.bs = DictPop(@, username),
              !.bt = DictPop(@, username)]

\* a reset of everything that empties the activity table alone
reset_all_WindowsOnly(S) == [S EXCEPT !.ua = EmptyDict]

\* reset_bans with the target 'all': the four clear() calls
reset_all(S) == RateState(EmptyDict, {}, EmptyDict, EmptyDict)

\* int(remaining_time.total_seconds() // 60) of the slow-down reply
MinutesLeft(S, username, t) ==
    (S.bs[username] + Minutes(DictGet(S.bt, username, DEFAULT_BAN_TIME)) - t) \div 60

-----------------------------------------------------------------------------
(* Bounds of the model and the senders *)

\* inbound updates (messages, commands) handled in one run
MaxMsgs == 5

\* clock advances in one run
MaxTicks == 2

\* updates handled in one run of the cached-file specification
MaxCacheOps == 2

\* clock advances in one run of the cached-file specification
MaxCacheTicks == 1

\* changes of the Drive and of the local cache directory in one run
MaxMods == 2

\* the instant at which a run starts: the process is some hours old
T0 == 24 * 60 * 60

\* by how much the clock may advance between two updates, seconds
ClockSteps == {60, 10 * 60, 60 * 60}

bob == <<"b","o","b">>

\* A sender: its handle (user.username, <<>> when it has none) and str(user.id)
Sender(username, id) == [username |-> username, id |-> id]

\* a key that is the handle, whether the sender has one or not
Key_HandleOnly(sender) == sender.username

\* username = user.username if user.username else str(user.id)
Key(sender) == IF sender.username # <<>> THEN sender.username ELSE sender.id

SenderBob == Sender(bob, <<"7">>)

\* the senders of the rate-limiter specification
RateSenders == {SenderBob}

-----------------------------------------------------------------------------
(* What a handler leaves behind for the properties to read *)

Reply(code, arg) == [code |-> code, arg |-> arg]

\* op: the handler; user: the key it used for the sender; ret: what the
\* rate-limit gate returned (TRUE when it was not asked); calls: the
\* check_user_limit calls made; meta_ok, meta_failed: the file ids whose
\* modified time get_file_modified_time returned, failed to return; dl: the
\* file ids download_file was called with; scan: the content the spreadsheet
\* scan read, <<>> when there was no scan; inp: what the handler was given
\* (the arguments of the command, what the Drive answered), <<>> when the
\* properties do not need it
Op(op, user) ==
    [op |-> op, user |-> user, ret |-> TRUE, calls |-> 0,
     meta_ok |-> {}, meta_failed |-> {}, dl |-> {}, scan |-> << >>, inp |-> << >>]

\* the reply of handle_message / handle_search to a sender the limiter refused
RateReply(S, username, t) ==
    IF username \in DOMAIN S.bs
    THEN << Reply("slow_down", MinutesLeft(S, username, t)) >>
    ELSE << Reply("ddos_blocked", 0) >>

-----------------------------------------------------------------------------
(* The histories a run may start from: each is the state the program is   *)
(* in after the calls listed, computed with check_user_limit itself.       *)

FreshState == RateState(EmptyDict, {}, EmptyDict, EmptyDict)

\* H = [S, bans, acc]: the limiter's tables, the number of bans so far and
\* the accepted calls
RECURSIVE Calls(_, _, _, _)
\* n calls of check_user_limit(username) at instant t
Calls(H, username, t, n) ==
    IF n = 0 THEN H
    ELSE LET R == check_user_limit(H.S, username, t)
             banned == username \in R.S.bu /\ username \notin H.S.bu
         IN  IF R.ret \in BOOLEAN
             THEN Calls([S |-> R.S, bans |-> IF banned THEN H.bans + 1 ELSE H.bans,
                         acc |-> Accepted(H.acc, username, t, R.ret)],
                        username, t, n - 1)
             ELSE H

RECURSIVE ReplayRange(_, _, _, _, _)
\* the bursts lo..hi of << [at, n], ... >>, in order. The range is halved and
\* each intermediate state is inspected before it is passed on, so that the
\* evaluation stays shallow; the tests always succeed.
ReplayRange(H, username, bursts, lo, hi) ==
    IF lo > hi THEN H
    ELSE IF lo = hi THEN Calls(H, username, bursts[lo].at, bursts[lo].n)
    ELSE LET mid == (lo + hi) \div 2
             H1  == ReplayRange(H, username, bursts, lo, mid)
         IN  IF H1.bans >= 0
             THEN ReplayRange(H1, username, bursts, mid + 1, hi)
             ELSE H

\* the bursts << [at, n], ... >> of calls, in order, from a fresh process
Replay(username, bursts) ==
    ReplayRange([S |-> FreshState, bans |-> 0, acc |-> EmptyDict], username, bursts, 1,
                Len(bursts))

\* nothing yet
HistFresh == << >>

\* nine accepted messages at T0
HistBurst == << [at |-> T0, n |-> 9] >>

\* 99 accepted messages in the last hour, none in the last minute:
\* ten bursts one minute apart, the last one at T0 - 60
HistHour ==
    [i \in 1..10 |-> [at |-> T0 - 60 * (11 - i), n |-> IF i = 10 THEN 9 ELSE 10]]

\* 999 accepted messages in the last day, none in the last hour:
\* a hundred bursts seven minutes apart, the last one at T0 - 3600
HistDay ==
    [i \in 1..100 |-> [at |-> T0 - 3600 - 420 * (100 - i), n |-> IF i = 100 THEN 9 ELSE 10]]

\* banned at T0 - 2400 and at T0 - 1200, each ban ended by the first call
\* after it expired, then nine accepted messages at T0
HistTwoBans ==
    << [at |-> T0 - 2400, n |-> 11], [at |-> T0 - 1200, n |-> 12], [at |-> T0, n |-> 10] >>

Histories == {HistFresh, HistBurst, HistHour, HistDay, HistTwoBans}

-----------------------------------------------------------------------------
(* Specification Spec: the rate limiter under group-chat messages, the    *)
(* admin's /reset_bans and the clock.                                      *)

InitRest ==
    /\ now = T0
    /\ whitelist = {}
    /\ blacklist = {}
    /\ LAST_FILE_ID = None
    /\ LAST_FILE_DATE = None
    /\ LAST_FILE_DRIVE_TIME = None
    /\ LAST_FILE_LOCAL_PATH = None
    /\ remote = EmptyDict
    /\ localfs = EmptyDict
    /\ last = Op("main", <<>>)
    /\ replies = <<>>
    /\ tasks = EmptyDict
    /\ environ = EnvNames

Init ==
    /\ \E h \in Histories :
         LET H == Replay(bob, h) IN
         /\ user_activity = H.S.ua
         /\ banned_users = H.S.bu
         /\ user_ban_times = H.S.bt
         /\ user_ban_start_times = H.S.bs
         /\ ban_count = IF H.bans > 0 THEN DictSet(EmptyDict, bob, H.bans) ELSE EmptyDict
         /\ accepted_calls = H.acc
    /\ InitRest
    /\ budget = [msgs |-> MaxMsgs, ticks |-> MaxTicks, mods |-> 0]

\* the history variable ban_count after a handler took the tables from S to S2
CountBans(S, S2) ==
    [u \in S2.bu \cup DOMAIN ban_count |->
        DictGet(ban_count, u, 0) + (IF u \in S2.bu /\ u \notin S.bu THEN 1 ELSE 0)]

\* handle_message for a text that is neither a command nor a mention, in a
\* group or supergroup: the rate-limit gate, then the message is ignored
GroupText(sender) ==
    /\ budget.msgs > 0
    /\ LET username == Key(sender)
           R == check_user_limit(RateState(user_activity, banned_users,
                                           user_ban_times, user_ban_start_times),
                                 username, now)
       IN  /\ user_activity' = R.S.ua
           /\ banned_users' = R.S.bu
           /\ user_ban_times' = R.S.bt
           /\ user_ban_start_times' = R.S.bs
           /\ replies' = IF R.ret THEN <<>> ELSE RateReply(R.S, username, now)
           /\ last' = [Op("handle_message", username) EXCEPT !.ret = R.ret, !.calls = 1]
           /\ ban_count' = CountBans(RateState(user_activity, banned_users,
                                               user_ban_times, user_ban_start_times), R.S)
           /\ accepted_calls' = Accepted(accepted_calls, username, now, R.ret)
    /\ budget' = [budget EXCEPT !.msgs = @ - 1]
    /\ UNCHANGED << environ, tasks, now, accessVars, cacheVars, envVars >>

\* reset_bans from the sender `admin` with the arguments args (context.args):
\* the admin test, the usage text when there is no argument, 'all' or the
\* reset of one username
ResetBans(admin, args) ==
    /\ budget.msgs > 0
    /\ LET S == RateState(user_activity, banned_users, user_ban_times, user_ban_start_times)
           target == IF args = << >> THEN << >> ELSE Lower(args[1])
           username == LStripAt(target)
           S2 == IF ~IsAdmin(admin.username) \/ args = << >> THEN S
                 ELSE IF target = <<"a","l","l">> THEN reset_all(S)
                 ELSE reset_user_limits(S, username)
       IN  /\ user_activity' = S2.ua
           /\ banned_users' = S2.bu
           /\ user_ban_times' = S2.bt
           /\ user_ban_start_times' = S2.bs
           /\ replies' = << IF ~IsAdmin(admin.username) THEN Reply("admin_only", 0)
                            ELSE IF args = << >> THEN Reply("reset_usage", 0)
                            ELSE IF target = <<"a","l","l">> THEN Reply("reset_all_success", 0)
                            ELSE Reply("reset_success", username) >>
           /\ last' = [Op("reset_bans", admin.username) EXCEPT !.inp = [args |-> args]]
           /\ ban_count' = IF ~IsAdmin(admin.username) \/ args = << >> THEN ban_count
                            ELSE IF target = <<"a","l","l">> THEN EmptyDict
                            ELSE DictPop(ban_count, username)
           /\ accepted_calls' = IF ~IsAdmin(admin.username) \/ args = << >>
                                 THEN accepted_calls
                                 ELSE IF target = <<"a","l","l">> THEN EmptyDict
                                 ELSE DictPop(accepted_calls, username)
    /\ budget' = [budget EXCEPT !.msgs = @ - 1]
    /\ UNCHANGED << environ, tasks, now, accessVars, cacheVars, envVars >>

\* the clock advances by d
Tick(d) ==
    /\ budget.ticks > 0
    /\ now' = now + d
    /\ budget' = [budget EXCEPT !.ticks = @ - 1]
    /\ last' = Op("tick", <<>>)
    /\ replies' = <<>>
    /\ UNCHANGED << environ, accepted_calls, tasks, rateVars, accessVars, cacheVars, envVars, ban_count >>

SenderAdmin == Sender(<<"y","o","p","t","v","a","y","o","u">>, <<"1">>)

\* the arguments of the /reset_bans commands of the specification
ResetArgs == { << bob >>, << <<"a","l","l">> >> }

Next ==
    \/ \E s \in RateSenders : GroupText(s)
    \/ \E args \in ResetArgs : ResetBans(SenderAdmin, args)
    \/ \E d \in ClockSteps : Tick(d)

Spec == Init /\ [][Next]_vars

-----------------------------------------------------------------------------
(* Properties of the rate limiter, checked under Spec *)

\* the timestamps of a window that are younger than its period at instant t
Younger(queue, t, period) == SelectSeq(queue, LAMBDA ts : t - ts < period)

\* the three windows of a key, each reduced to its timestamps younger than
\* its period
YoungerAll(act, t) ==
    [minute |-> Younger(act.minute, t, 60),
     hour   |-> Younger(act.hour, t, 3600),
     day    |-> Younger(act.day, t, 86400)]

\* the step just taken is a message of `username` that went through
\* check_user_limit once
CheckedStep(username) ==
    last'.op = "handle_message" /\ last'.user = username /\ last'.calls = 1

\* C1: in every reachable state and for every identity the minute, hour and
\* day windows hold at most 10, 100 and 1000 timestamps.
C1_WindowsWithinLimits ==
    \A u \in DOMAIN user_activity :
        /\ Len(user_activity[u].minute) <= 10
        /\ Len(user_activity[u].hour) <= 100
        /\ Len(user_activity[u].day) <= 1000

\* C1, witness: a minute window holds 10 timestamps and the next message of
\* its identity has just been refused.
C1_Witness ==
    \E u \in DOMAIN user_activity :
        /\ Len(user_activity[u].minute) = 10
        /\ last.op = "handle_message" /\ last.user = u /\ ~last.ret
        /\ u \in banned_users

\* C3: a call for an identity that is not banned: if after eviction a window
\* holds its limit, the call returns false, the identity is banned with ban
\* start = now and nothing is appended; otherwise the call returns true and
\* now is appended to the three windows.
C3_LimitOrRecord ==
    [][\A s \in RateSenders :
          LET u == Key(s)
              act == YoungerAll(Activity(user_activity, u), now)
          IN  (CheckedStep(u) /\ u \notin banned_users) =>
                IF Len(act.minute) >= 10 \/ Len(act.hour) >= 100 \/ Len(act.day) >= 1000
                THEN /\ ~last'.ret
                     /\ u \in banned_users'
                     /\ u \in DOMAIN user_ban_start_times'
                     /\ user_ban_start_times'[u] = now
                     /\ user_activity'[u] = act
                ELSE /\ last'.ret
                     /\ u \notin banned_users'
                     /\ user_activity'[u] = [minute |-> Append(act.minute, now),
                                             hour   |-> Append(act.hour, now),
                                             day    |-> Append(act.day, now)]
      ]_vars

\* C3, witness: a message has just been refused and its identity banned at
\* this instant because the hour window holds 100 timestamps, while the
\* minute window is below its limit.
C3_Witness ==
    \E u \in banned_users :
        /\ last.op = "handle_message" /\ last.user = u /\ ~last.ret
        /\ u \in DOMAIN user_ban_start_times /\ user_ban_start_times[u] = now
        /\ Len(user_activity[u].hour) = 100
        /\ Len(user_activity[u].minute) < 10

\* C4: the first ban of an identity lasts 10 minutes: a call at t < s + 10
\* minutes returns false and the first call at t >= s + 10 minutes is
\* accepted (s the ban start).
C4_FirstBanTenMinutes ==
    [][\A s \in RateSenders :
          LET u == Key(s) IN
          (/\ CheckedStep(u)
           /\ u \in banned_users
           /\ u \in DOMAIN user_ban_start_times
           /\ DictGet(ban_count, u, 0) = 1)
          => (last'.ret <=> now >= user_ban_start_times[u] + 10 * 60)
      ]_vars

\* C5: the N-th ban of an identity (no admin reset in between, the earlier
\* bans ended by expiry) is enforced for 10 * N minutes.
C5_NthBanTenTimesN ==
    \A u \in banned_users :
        u \in DOMAIN user_ban_times => user_ban_times[u] = 10 * DictGet(ban_count, u, 0)

\* C6: the first message after the ban has expired is accepted and recorded:
\* now is appended to the three windows, and the minute window holds exactly
\* that timestamp when nothing else was recorded in the last minute.
C6_UnbanningMessageRecorded ==
    [][\A s \in RateSenders :
          LET u == Key(s)
              act == YoungerAll(Activity(user_activity, u), now)
          IN  (/\ CheckedStep(u)
               /\ u \in banned_users
               /\ u \in DOMAIN user_ban_start_times
               /\ now >= user_ban_start_times[u]
                           + 60 * DictGet(user_ban_times, u, DEFAULT_BAN_TIME))
              => /\ last'.ret
                 /\ u \in DOMAIN user_activity'
                 /\ user_activity'[u] = [minute |-> Append(act.minute, now),
                                         hour   |-> Append(act.hour, now),
                                         day    |-> Append(act.day, now)]
                 /\ (act.minute = <<>> => user_activity'[u].minute = << now >>)
      ]_vars

\* C7: a call for an identity whose ban has not expired returns false and
\* leaves its windows, its ban start, its ban duration and the ban set as
\* they were.
C7_BannedCallChangesNothing ==
    [][\A s \in RateSenders :
          LET u == Key(s) IN
          (/\ CheckedStep(u)
           /\ u \in banned_users
           /\ u \in DOMAIN user_ban_start_times
           /\ now < user_ban_start_times[u]
                      + 60 * DictGet(user_ban_times, u, DEFAULT_BAN_TIME))
          => /\ ~last'.ret
             /\ user_activity' = user_activity
             /\ user_ban_start_times' = user_ban_start_times
             /\ user_ban_times' = user_ban_times
             /\ banned_users' = banned_users
      ]_vars

\* C7, witness: a message of a banned identity has just been refused at an
\* instant later than its ban start.
C7_Witness ==
    \E u \in banned_users :
        /\ last.op = "handle_message" /\ last.user = u /\ ~last.ret
        /\ u \in DOMAIN user_ban_start_times /\ user_ban_start_times[u] < now

-----------------------------------------------------------------------------
(* Specification SpecAccess: the access lists under /reload_lists and     *)
(* calls of is_allowed.                                                    *)

\* the lines a list file on the Drive may hold
LinePool ==
    { <<"@","B","o","b">>, <<" ","e","v","e"," ">>,
      <<"Y","o","p","t","V","a","y","o","u">>, << >> }

\* the identities is_allowed is asked about
Identities ==
    { << >>, <<"b","o","b">>, <<"B","o","b">>, <<"e","v","e">>, <<"c","a","r","o","l">>,
      <<"y","o","p","t","v","a","y","o","u">>,
      <<"Y","o","p","t","V","a","y","o","u">> }

InitAccess ==
    /\ user_activity = FreshState.ua
    /\ banned_users = FreshState.bu
    /\ user_ban_times = FreshState.bt
    /\ user_ban_start_times = FreshState.bs
    /\ ban_count = EmptyDict
    /\ accepted_calls = EmptyDict
    /\ InitRest
    /\ budget = [msgs |-> MaxMsgs, ticks |-> MaxTicks, mods |-> 0]

\* update_lists that adds what was fetched to what is in memory
update_lists_Merge(wlLines, wlOk, blLines, blOk) ==
    /\ whitelist' = whitelist \cup download_list(wlLines, wlOk)
    /\ blacklist' = blacklist \cup download_list(blLines, blOk)

\* AccessManager.update_lists with both file ids configured: each list is
\* replaced by what download_list returns for its file
update_lists(wlLines, wlOk, blLines, blOk) ==
    /\ whitelist' = download_list(wlLines, wlOk)
    /\ blacklist' = download_list(blLines, blOk)

\* reload_lists from an admin; the two files hold wlLines and blLines and
\* each download succeeds or fails
ReloadLists(admin, wlLines, wlOk, blLines, blOk) ==
    /\ IF IsAdmin(admin.username)
       THEN /\ update_lists(wlLines, wlOk, blLines, blOk)
            /\ replies' = << Reply("lists_reloaded", 0) >>
       ELSE /\ UNCHANGED accessVars
            /\ replies' = << Reply("denied", 0) >>
    /\ last' = [Op("reload_lists", admin.username)
                  EXCEPT !.inp = [wl |-> wlLines, wl_ok |-> wlOk,
                                  bl |-> blLines, bl_ok |-> blOk]]
    /\ UNCHANGED << environ, accepted_calls, tasks, now, rateVars, cacheVars, envVars, ban_count, budget >>

\* access_manager.is_allowed(username)
IsAllowed(username) ==
    /\ last' = [Op("is_allowed", username)
                  EXCEPT !.ret = is_allowed(username, blacklist, whitelist)]
    /\ replies' = <<>>
    /\ UNCHANGED << environ, accepted_calls, tasks, now, rateVars, accessVars, cacheVars, envVars, ban_count, budget >>

\* the elements of a Python list
Elems(seq) == { seq[i] : i \in DOMAIN seq }

\* usernames = [u.lstrip('@').lower() for u in args[1:]] if len(args) > 1 else []
CommandUsernames(args) == [i \in 1..(Len(args) - 1) |-> Lower(LStripAt(args[i + 1]))]

\* manage_whitelist, action "add": the loop over usernames
WhitelistAdd(wl, usernames) ==
    [wl |-> wl \cup Elems(usernames), changed |-> Elems(usernames) \ wl]

\* manage_whitelist, action "remove": the loop over usernames
WhitelistRemove(wl, usernames) ==
    [wl |-> wl \ Elems(usernames), changed |-> Elems(usernames) \cap wl]

\* manage_whitelist, the write failed: for u in added: discard(u), or
\* for u in removed: add(u)
WhitelistRollback(action, A) ==
    IF action = <<"a","d","d">> THEN A.wl \ A.changed ELSE A.wl \cup A.changed

\* manage_whitelist from `admin` with context.args = args; canWrite: what
\* check_write_permission gives for both files; writeOk: what
\* update_list_file gives
ManageWhitelist(admin, args, canWrite, writeOk) ==
    /\ LET action == IF args = << >> THEN << >> ELSE Lower(args[1])
           usernames == CommandUsernames(args)
           A == IF action = <<"a","d","d">> THEN WhitelistAdd(whitelist, usernames)
                ELSE WhitelistRemove(whitelist, usernames)
       IN  IF ~IsAdmin(admin.username)
           THEN /\ replies' = << Reply("admin_only", 0) >>
                /\ UNCHANGED accessVars
           ELSE IF args = << >>
           THEN /\ replies' = << Reply("list_usage", 0) >>
                /\ UNCHANGED accessVars
           ELSE IF action = <<"s","h","o","w">>
           THEN /\ replies' = << IF whitelist # {} THEN Reply("list_show_header", whitelist)
                                 ELSE Reply("list_show_empty", 0) >>
                /\ UNCHANGED accessVars
           ELSE IF action \in { <<"a","d","d">>, <<"r","e","m","o","v","e">> }
           THEN IF usernames = << >>
                THEN /\ replies' = << Reply("list_no_usernames", 0) >>
                     /\ UNCHANGED accessVars
                ELSE IF ~canWrite
                THEN /\ replies' = << Reply("list_no_write_permission", 0) >>
                     /\ UNCHANGED accessVars
                ELSE IF writeOk
                THEN /\ whitelist' = A.wl
                     /\ replies' = << Reply(IF action = <<"a","d","d">>
                                            THEN "list_update_success_add"
                                            ELSE "list_update_success_remove", A.changed) >>
                     /\ UNCHANGED blacklist
                ELSE /\ whitelist' = WhitelistRollback(action, A)
                     /\ replies' = << Reply("list_update_error", 0) >>
                     /\ UNCHANGED blacklist
           ELSE /\ replies' = << Reply("list_unknown_action", 0) >>
                /\ UNCHANGED accessVars
    /\ last' = [Op("manage_whitelist", admin.username)
                  EXCEPT !.inp = [args |-> args, can_write |-> canWrite,
                                  write_ok |-> writeOk]]
    /\ UNCHANGED << environ, accepted_calls, tasks, now, rateVars, cacheVars, envVars, ban_count, budget >>

\* manage_blacklist from `admin` with context.args = args: for "add" and
\* "remove" the handler returns after the permission check, before the code
\* that changes the lists and writes the files
ManageBlacklist(admin, args, canWrite, writeOk) ==
    /\ LET action == IF args = << >> THEN << >> ELSE Lower(args[1])
           usernames == CommandUsernames(args)
       IN  IF ~IsAdmin(admin.username)
           THEN replies' = << Reply("admin_only", 0) >>
           ELSE IF args = << >>
           THEN replies' = << Reply("list_usage", 0) >>
           ELSE IF action = <<"s","h","o","w">>
           THEN replies' = << IF blacklist # {} THEN Reply("list_show_header", blacklist)
                              ELSE Reply("list_show_empty", 0) >>
           ELSE IF action \in { <<"a","d","d">>, <<"r","e","m","o","v","e">> }
           THEN IF usernames = << >>
                THEN replies' = << Reply("list_no_usernames", 0) >>
                ELSE IF ~canWrite
                THEN replies' = << Reply("list_no_write_permission", 0) >>
                ELSE replies' = << >>
           ELSE replies' = << Reply("list_unknown_action", 0) >>
    /\ last' = [Op("manage_blacklist", admin.username)
                  EXCEPT !.inp = [args |-> args, can_write |-> canWrite,
                                  write_ok |-> writeOk]]
    /\ UNCHANGED << environ, accepted_calls, tasks, now, rateVars, accessVars, cacheVars, envVars, ban_count, budget >>

\* the context.args of the list commands
CommandArgs ==
    { << >>, << <<"s","h","o","w">> >>, << <<"a","d","d">> >>, << <<"p","u","r","g","e">> >>,
      << <<"A","d","d">>, <<"@","B","o","b">> >>,
      << <<"a","d","d">>, << "@" >> >>,
      << <<"a","d","d">>, <<"@","B","o","b">>, <<"e","v","e">> >>,
      << <<"r","e","m","o","v","e">>, <<"e","v","e">> >>,
      << <<"r","e","m","o","v","e">>, <<"@","b","o","b">>, <<"E","v","e">> >> }

\* the list files: the sets of lines a list file holds at some time
ListFiles ==
    { {}, { <<"@","B","o","b">> }, { <<" ","e","v","e"," ">>, << >> },
      { <<"Y","o","p","t","V","a","y","o","u">>, <<"@","B","o","b">> }, LinePool }

\* what the download of a list file may give: any lines, or a failure
\* (then whatever lines the file holds are not seen)
ListFetches ==
    { [lines |-> l, ok |-> TRUE] : l \in ListFiles }
        \cup { [lines |-> LinePool, ok |-> FALSE] }

NextAccess ==
    \/ \E wl \in ListFetches, bl \in ListFetches :
          ReloadLists(SenderAdmin, wl.lines, wl.ok, bl.lines, bl.ok)
    \/ \E bl \in ListFetches :
          ReloadLists(SenderAdmin, update_list_file(whitelist), TRUE, bl.lines, bl.ok)
    \/ \E args \in CommandArgs, canWrite, writeOk \in BOOLEAN :
          ManageWhitelist(SenderAdmin, args, canWrite, writeOk)
    \/ \E args \in CommandArgs, canWrite, writeOk \in BOOLEAN :
          ManageBlacklist(SenderAdmin, args, canWrite, writeOk)
    \/ \E username \in Identities : IsAllowed(username)

SpecAccess == InitAccess /\ [][NextAccess]_vars

-----------------------------------------------------------------------------
(* Properties of the access control, checked under SpecAccess *)

\* the answer the four-step precedence gives for a lowercased identity u
Precedence(u) ==
    IF u \in AdminSet THEN TRUE
    ELSE IF u \in blacklist THEN FALSE
    ELSE IF whitelist # {} /\ u \notin whitelist THEN FALSE
    ELSE TRUE

\* C2: for every non-empty identity string and every content of the two
\* lists, is_allowed returns true for an admin (even on the deny-list),
\* otherwise false for an identity on the deny-list (even on the allow-list),
\* otherwise false when the allow-list is non-empty and does not contain it,
\* otherwise true; the empty identity is refused whatever the lists hold.
C2_Precedence ==
    last.op = "is_allowed" =>
        LET u == Lower(last.user) IN
        /\ (last.user # <<>> /\ u \in AdminSet) => last.ret
        /\ (last.user # <<>> /\ u \notin AdminSet /\ u \in blacklist) => ~last.ret
        /\ (last.user # <<>> /\ u \notin AdminSet /\ u \notin blacklist
               /\ whitelist # {} /\ u \notin whitelist) => ~last.ret
        /\ (last.user # <<>> /\ u \notin AdminSet /\ u \notin blacklist
               /\ (whitelist = {} \/ u \in whitelist)) => last.ret
        /\ last.user = <<>> => ~last.ret

\* C2, witness: is_allowed has just answered true for an admin, written in
\* mixed case, who is on the deny-list.
C2_Witness ==
    /\ last.op = "is_allowed"
    /\ last.user # Lower(last.user)
    /\ Lower(last.user) \in AdminSet
    /\ Lower(last.user) \in blacklist
    /\ last.ret

\* C2 as stated: for every identity string, the empty one included,
\* is_allowed returns what the four-step precedence gives.
C2_EveryIdentityString ==
    last.op = "is_allowed" => last.ret = Precedence(Lower(last.user))

-----------------------------------------------------------------------------
(* The cached file: FileManager, preload_latest_file, handle_search,       *)
(* refresh_file.  The Drive holds at most one dated file per logical date; *)
(* `remote` gives the true instant of its last modification.  A local file *)
(* has its filesystem mtime (a true instant) and its content, named by the *)
(* remote modification instant of the version it holds.                    *)

\* TIMEZONE_OFFSET = int(os.getenv("TIMEZONE_OFFSET", 3))
TIMEZONE_OFFSET == 3

\* timedelta(hours=h), in seconds
Hours(h) == h * 60 * 60

\* how many days preload_latest_file tries: range(31)
PRELOAD_DAYS == 31

\* the logical date of an instant
Today(t) == t \div (24 * 60 * 60)

\* the Drive id of the dated file of logical date d
FileId(d) == << "id", d >>

\* os.path.join(LOCAL_CACHE_DIR, f"cache_{target_date.strftime('%Y%m%d')}.xlsm")
LocalPath(d) == << "cache", d >>

\* the content of a file opened with 'wb' whose download did not finish
Truncated == -1

\* how a download_file call may end: done, an exception before open(), an
\* exception after open() has truncated the local file
DownloadOutcomes == {"ok", "fail_before_open", "fail_after_open"}

\* FileManager.get_file_modified_time: the modified time shifted by
\* TIMEZONE_OFFSET hours, None when the request fails
get_file_modified_time(rem, file_id, ok) ==
    IF ok /\ file_id[2] \in DOMAIN rem
    THEN Some(rem[file_id[2]] + Hours(TIMEZONE_OFFSET))
    ELSE None

\* FileManager.download_file at instant t: the local files after the call
\* and the value returned
download_file(fs, rem, file_id, local_path, outcome, t) ==
    IF outcome = "ok" /\ file_id[2] \in DOMAIN rem
    THEN [fs |-> DictSet(fs, local_path, [mtime |-> t, content |-> rem[file_id[2]]]),
          ret |-> TRUE]
    ELSE IF outcome = "fail_before_open"
    THEN [fs |-> fs, ret |-> FALSE]
    ELSE [fs |-> DictSet(fs, local_path, [mtime |-> t, content |-> Truncated]),
          ret |-> FALSE]

\* datetime.fromtimestamp(os.path.getmtime(local_path), tz=timezone.utc)
LocalTime(fs, local_path) == fs[local_path].mtime

\* a preload that downloads whatever the local copy is
PreloadDownloadNeeded_Always(fs, local_path, drive_time) == TRUE

\* preload_latest_file: download_needed
PreloadDownloadNeeded(fs, local_path, drive_time) ==
    ~ (local_path \in DOMAIN fs /\ drive_time <= LocalTime(fs, local_path))

\* a lookup that downloads the file whatever time is recorded
SearchDownloadNeeded_Always(current_drive_time, recorded) == TRUE

\* mutant of SearchDownloadNeeded: only a file with no recorded time is fetched
SearchDownloadNeeded_UnrecordedOnly(current_drive_time, recorded) ==
    recorded = None

\* handle_search: LAST_FILE_DRIVE_TIME is None or current_drive_time > LAST_FILE_DRIVE_TIME
SearchDownloadNeeded(current_drive_time, recorded) ==
    recorded = None \/ current_drive_time > recorded[1]

\* a handler that records the observed time whether the download succeeded
\* or not
RecordedAfterDownload_Always(ret, current_drive_time, recorded) == current_drive_time

\* handle_search, refresh_file: `if fm.download_file(...):
\* LAST_FILE_DRIVE_TIME = current_drive_time`, nothing is assigned otherwise
RecordedAfterDownload(ret, current_drive_time, recorded) ==
    IF ret THEN current_drive_time ELSE recorded

\* The cached-file metadata as one value
CacheState(id, date, drive_time, path) ==
    [id |-> id, date |-> date, drive_time |-> drive_time, path |-> path]

NoCache == CacheState(None, None, None, None)

\* what the Drive does for the dated file of one date during a preload: its
\* metadata request fails, or it succeeds and a download of the file, if one
\* is started, ends in one of DownloadOutcomes
DriveOutcomes == {"meta_failed"} \cup DownloadOutcomes

\* the first days_back from `from` on, below PRELOAD_DAYS, whose date has a
\* dated file on the Drive (find_folder, find_file succeed); PRELOAD_DAYS
\* when there is none: the loop `continue`s over the other days
NextDaysBack(rem, from, today) ==
    LET K == { k \in from..(PRELOAD_DAYS - 1) : today - k \in DOMAIN rem }
    IN  IF K = {} THEN PRELOAD_DAYS ELSE CHOOSE k \in K : \A j \in K : k <= j

RECURSIVE preload_from(_, _, _, _, _, _)
\* preload_latest_file from days_back on, at instant t: P carries the local
\* files, the ids asked for their time and the ids downloaded so far.
\* drive: what the Drive does for each date that has a file
preload_from(P, rem, from, t, drive, today) ==
    LET days_back == NextDaysBack(rem, from, today) IN
    IF days_back >= PRELOAD_DAYS
    THEN [P EXCEPT !.cache = NoCache]
    ELSE LET target_date == today - days_back
             file_id == FileId(target_date)
             local_path == LocalPath(target_date)
             drive_time == get_file_modified_time(rem, file_id,
                                                  drive[target_date] # "meta_failed")
             next(Q) == preload_from(Q, rem, days_back + 1, t, drive, today)
         IN  IF drive_time = None
             THEN next([P EXCEPT !.meta_failed = @ \cup {file_id}])
             ELSE LET P1 == [P EXCEPT !.meta_ok = @ \cup {file_id}]
                      found == CacheState(Some(file_id), Some(target_date),
                                          drive_time, Some(local_path))
                  IN  IF PreloadDownloadNeeded(P.fs, local_path, drive_time[1])
                      THEN LET D == download_file(P.fs, rem, file_id, local_path,
                                                  drive[target_date], t)
                               P2 == [P1 EXCEPT !.fs = D.fs, !.dl = @ \cup {file_id}]
                           IN  IF D.ret THEN [P2 EXCEPT !.cache = found]
                               ELSE next(P2)
                      ELSE [P1 EXCEPT !.cache = found]

\* preload_latest_file at instant t
preload_latest_file(fs, rem, t, drive) ==
    preload_from([fs |-> fs, cache |-> NoCache, meta_ok |-> {}, meta_failed |-> {},
                  dl |-> {}],
                 rem, 0, t, drive, Today(t))

\* LocalDataSearcher: the replies of the scan of the local file for a serial
\* number that every version of the workbook holds; an unreadable file gives
\* no rows
SearchReplies(fs, local_path) ==
    IF local_path \in DOMAIN fs /\ fs[local_path].content # Truncated
    THEN << Reply("result", fs[local_path].content) >>
    ELSE << Reply("no_terminal", 0) >>

\* mutant of MetadataFailureReplies: the end user is told the data may be old
MetadataFailureReplies_Warn == << Reply("file_update_error", 0) >>

\* handle_search, current_drive_time is None: a logger.warning, nothing is
\* sent to the chat
MetadataFailureReplies == << >>

\* a handle_search that turns to today's file when the Drive has one
ServedFile_Newest(C, rem, t) ==
    IF Today(t) \in DOMAIN rem
    THEN CacheState(Some(FileId(Today(t))), Some(Today(t)), C.drive_time,
                    Some(LocalPath(Today(t))))
    ELSE C

\* handle_search: LAST_FILE_ID, LAST_FILE_DATE and LAST_FILE_LOCAL_PATH are
\* read and never assigned, whatever the Drive holds at instant t
ServedFile(C, rem, t) == C

\* a handle_search that takes the local file for granted
LocalFileExists_Always(fs, local_path) == TRUE

\* handle_search: os.path.exists(LAST_FILE_LOCAL_PATH)
LocalFileExists(fs, local_path) == local_path \in DOMAIN fs

\* handle_search from the check of the preloaded file on (after the status
\* reply), at instant t: the metadata, the local files, what was asked of the
\* Drive, what was scanned and the replies sent.
\* metaOk: the metadata request succeeds; outcome: how a download ends
lookup(C, fs, rem, metaOk, outcome, t) ==
    LET R0 == [cache |-> ServedFile(C, rem, t), fs |-> fs, meta_ok |-> {},
               meta_failed |-> {}, dl |-> {},
               scan |-> << >>, replies |-> << >>]
    IN  IF C.id = None \/ C.path = None
        THEN [R0 EXCEPT !.replies = << Reply("no_file", 0) >>]
        ELSE IF ~LocalFileExists(fs, C.path[1])
        THEN [R0 EXCEPT !.replies = << Reply("file_not_found_local", 0) >>]
        ELSE
        LET current_drive_time == get_file_modified_time(rem, C.id[1], metaOk)
            R1 == IF current_drive_time = None
                  THEN [R0 EXCEPT !.meta_failed = {C.id[1]},
                                  !.replies = MetadataFailureReplies]
                  ELSE IF SearchDownloadNeeded(current_drive_time[1], C.drive_time)
                  THEN LET D == download_file(fs, rem, C.id[1], C.path[1], outcome, t)
                       IN  IF D.ret
                           THEN [R0 EXCEPT !.meta_ok = {C.id[1]}, !.dl = {C.id[1]},
                                           !.fs = D.fs,
                                           !.cache.drive_time =
                                               RecordedAfterDownload(D.ret,
                                                   current_drive_time, C.drive_time)]
                           ELSE [R0 EXCEPT !.meta_ok = {C.id[1]}, !.dl = {C.id[1]},
                                           !.fs = D.fs,
                                           !.cache.drive_time =
                                               RecordedAfterDownload(D.ret,
                                                   current_drive_time, C.drive_time),
                                           !.replies = << Reply("file_update_error", 0) >>]
                  ELSE [R0 EXCEPT !.meta_ok = {C.id[1]}]
        IN  [R1 EXCEPT !.scan = IF C.path[1] \in DOMAIN R1.fs
                                THEN << R1.fs[C.path[1]].content >> ELSE << >>,
                       !.replies = @ \o SearchReplies(R1.fs, C.path[1])]

\* the characters re.sub(r'[^A-Za-z0-9\-]', '', ...) keeps
SerialChars ==
    DOMAIN UpperToLower \cup { UpperToLower[c] : c \in DOMAIN UpperToLower }
        \cup {"0","1","2","3","4","5","6","7","8","9","-"}

\* str.upper(), one character (ASCII letters)
UpperChar(c) ==
    IF \E u \in DOMAIN UpperToLower : UpperToLower[u] = c
    THEN CHOOSE u \in DOMAIN UpperToLower : UpperToLower[u] = c
    ELSE c

\* extract_number that refuses a query holding a character it does not keep
extract_number_Reject(query) ==
    LET q == Strip(query) IN
    IF q # << >> /\ \A i \in DOMAIN q : q[i] \in SerialChars
    THEN Some([i \in 1..Len(q) |-> UpperChar(q[i])])
    ELSE None

\* extract_number: the characters that are no letter, digit or '-' are taken
\* out of the query; what is left, in upper case, or None when nothing is left
extract_number(query) ==
    LET clean == SelectSeq(Strip(query), LAMBDA c : c \in SerialChars) IN
    IF query # << >> /\ clean # << >>
    THEN Some([i \in 1..Len(clean) |-> UpperChar(clean[i])])
    ELSE None

RECURSIVE Split(_, _)
\* str.split(sep)
Split(s, sep) ==
    IF \E i \in DOMAIN s : s[i] = sep
    THEN LET i == CHOOSE k \in DOMAIN s : s[k] = sep /\ \A m \in 1..(k - 1) : s[m] # sep
         IN  << SubSeq(s, 1, i - 1) >> \o Split(SubSeq(s, i + 1, Len(s)), sep)
    ELSE << s >>

\* numbers = [extract_number(n) for n in query.split(',')] without the Nones
SearchNumbers(query) ==
    LET parts == Split(query, ",")
        found == SelectSeq([i \in 1..Len(parts) |-> extract_number(parts[i])],
                           LAMBDA n : n # None)
    IN  [i \in 1..Len(found) |-> found[i][1]]

\* the chat types in which handle_message calls check_user_limit itself
RateCheckedChats == {"private", "group", "supergroup"}

\* a private-chat gate that lets the rate limiter run before it refuses
PrivateGate_CheckFirst(S, username, t) ==
    [S |-> check_user_limit(S, username, t).S, ret |-> FALSE]

\* the access gate of a private chat when it refuses: the reply and the
\* return come before check_user_limit, the limiter's tables are not read
PrivateGate(S, username, t) == [S |-> S, ret |-> FALSE]

\* handle_message for a text that asks for a search, then handle_search:
\* "/s <query>" in a private chat, a group or a supergroup, a mention of the
\* bot followed by the query in a channel. In a private chat the access gate
\* of handle_message (and of handle_search) comes first; then the rate-limit
\* gate of handle_message, the one of handle_search, the serial numbers of
\* the query, the status reply and the lookup.
Search(chat, sender, query, metaOk, outcome) ==
    /\ budget.msgs > 0
    /\ LET username == Key(sender)
           refused == /\ chat = "private"
                      /\ \/ sender.username = << >>
                         \/ ~is_allowed(Lower(sender.username), blacklist, whitelist)
           S0 == RateState(user_activity, banned_users, user_ban_times,
                           user_ban_start_times)
           R1 == IF refused THEN PrivateGate(S0, username, now)
                 ELSE IF chat \in RateCheckedChats THEN check_user_limit(S0, username, now)
                 ELSE [S |-> S0, ret |-> TRUE]
           missing == query = << >>
           R2 == IF R1.ret /\ ~missing THEN check_user_limit(R1.S, username, now) ELSE R1
           numbers == SearchNumbers(query)
           C  == CacheState(LAST_FILE_ID, LAST_FILE_DATE, LAST_FILE_DRIVE_TIME,
                            LAST_FILE_LOCAL_PATH)
           L  == lookup(C, localfs, remote, metaOk, outcome, now)
           calls == IF refused THEN 0
                    ELSE (IF chat \in RateCheckedChats THEN 1 ELSE 0)
                         + (IF R1.ret /\ ~missing THEN 1 ELSE 0)
           op == [Op("handle_search", username)
                    EXCEPT !.calls = calls,
                           !.inp = [chat |-> chat, sender |-> sender.username,
                                    query |-> query]]
       IN  /\ user_activity' = R2.S.ua
           /\ banned_users' = R2.S.bu
           /\ user_ban_times' = R2.S.bt
           /\ user_ban_start_times' = R2.S.bs
           /\ ban_count' = CountBans(S0, R2.S)
           /\ accepted_calls' =
                 LET A1 == IF ~refused /\ chat \in RateCheckedChats
                           THEN Accepted(accepted_calls, username, now, R1.ret)
                           ELSE accepted_calls
                 IN  IF R1.ret /\ ~missing THEN Accepted(A1, username, now, R2.ret) ELSE A1
           /\ IF refused
              THEN /\ UNCHANGED << cacheVars, localfs >>
                   /\ replies' = << Reply("access_denied", 0) >>
                   /\ last' = [op EXCEPT !.ret = FALSE]
              ELSE IF ~R2.ret
              THEN /\ UNCHANGED << cacheVars, localfs >>
                   /\ replies' = RateReply(R2.S, username, now)
                   /\ last' = [op EXCEPT !.ret = FALSE]
              ELSE IF missing
              THEN /\ UNCHANGED << cacheVars, localfs >>
                   /\ replies' = IF chat \in RateCheckedChats
                                 THEN << Reply("missing_number", 0) >> ELSE << >>
                   /\ last' = op
              ELSE IF numbers = << >>
              THEN /\ UNCHANGED << cacheVars, localfs >>
                   /\ replies' = << Reply("invalid_number", 0) >>
                   /\ last' = op
              ELSE /\ LAST_FILE_ID' = L.cache.id
                   /\ LAST_FILE_DATE' = L.cache.date
                   /\ LAST_FILE_DRIVE_TIME' = L.cache.drive_time
                   /\ LAST_FILE_LOCAL_PATH' = L.cache.path
                   /\ localfs' = L.fs
                   /\ replies' = << Reply("search_start", 0) >> \o L.replies
                   /\ last' = [op EXCEPT !.meta_ok = L.meta_ok,
                                         !.meta_failed = L.meta_failed, !.dl = L.dl,
                                         !.scan = L.scan]
    /\ budget' = [budget EXCEPT !.msgs = @ - 1]
    /\ UNCHANGED << environ, tasks, now, accessVars, remote >>

\* a serial number of the workbook, as a user types it
SerialQuery == <<"a","b","-","1","2">>

\* handle_message for "/s <serial number>" in a group or supergroup
GroupSearch(sender, metaOk, outcome) == Search("group", sender, SerialQuery, metaOk, outcome)

\* refresh_file from the sender `admin`
Refresh(admin, metaOk, outcome) ==
    /\ budget.msgs > 0
    /\ IF ~IsAdmin(admin.username)
       THEN /\ replies' = << Reply("denied", 0) >>
            /\ last' = Op("refresh_file", admin.username)
            /\ UNCHANGED << LAST_FILE_DRIVE_TIME, localfs >>
       ELSE IF LAST_FILE_ID = None \/ LAST_FILE_LOCAL_PATH = None
       THEN /\ replies' = << Reply("refresh_no_file", 0) >>
            /\ last' = Op("refresh_file", admin.username)
            /\ UNCHANGED << LAST_FILE_DRIVE_TIME, localfs >>
       ELSE LET current_drive_time ==
                    get_file_modified_time(remote, LAST_FILE_ID[1], metaOk)
                D == download_file(localfs, remote, LAST_FILE_ID[1],
                                   LAST_FILE_LOCAL_PATH[1], outcome, now)
            IN  IF current_drive_time = None
                THEN /\ replies' = << Reply("refresh_start", 0),
                                      Reply("refresh_no_time", 0) >>
                     /\ last' = [Op("refresh_file", admin.username)
                                   EXCEPT !.meta_failed = {LAST_FILE_ID[1]}]
                     /\ UNCHANGED << LAST_FILE_DRIVE_TIME, localfs >>
                ELSE /\ localfs' = D.fs
                     /\ LAST_FILE_DRIVE_TIME' =
                            RecordedAfterDownload(D.ret, current_drive_time,
                                                  LAST_FILE_DRIVE_TIME)
                     /\ replies' = << Reply("refresh_start", 0),
                                      Reply(IF D.ret THEN "refresh_done"
                                            ELSE "refresh_failed", 0) >>
                     /\ last' = [Op("refresh_file", admin.username)
                                   EXCEPT !.meta_ok = {LAST_FILE_ID[1]},
                                          !.dl = {LAST_FILE_ID[1]}]
    /\ budget' = [budget EXCEPT !.msgs = @ - 1]
    /\ UNCHANGED << environ, accepted_calls, tasks, now, rateVars, accessVars, LAST_FILE_ID, LAST_FILE_DATE,
                    LAST_FILE_LOCAL_PATH, remote, ban_count >>

\* restart_bot from an admin: os.execv starts the program again, and main
\* runs: the tables of the new process are empty, update_lists reads the two
\* list files (here without lines), preload_latest_file looks for the file
Restart(admin, drive) ==
    /\ budget.msgs > 0
    /\ IsAdmin(admin.username)
    /\ user_activity' = FreshState.ua
    /\ banned_users' = FreshState.bu
    /\ user_ban_times' = FreshState.bt
    /\ user_ban_start_times' = FreshState.bs
    /\ ban_count' = EmptyDict
    /\ accepted_calls' = EmptyDict
    /\ update_lists({}, TRUE, {}, TRUE)
    /\ LET P == preload_latest_file(localfs, remote, now, drive)
       IN  /\ LAST_FILE_ID' = P.cache.id
           /\ LAST_FILE_DATE' = P.cache.date
           /\ LAST_FILE_DRIVE_TIME' = P.cache.drive_time
           /\ LAST_FILE_LOCAL_PATH' = P.cache.path
           /\ localfs' = P.fs
           /\ last' = [Op("main", admin.username)
                         EXCEPT !.meta_ok = P.meta_ok, !.meta_failed = P.meta_failed,
                                !.dl = P.dl, !.inp = [drive |-> drive]]
    /\ replies' = << Reply("restarting", 0) >>
    /\ budget' = [budget EXCEPT !.msgs = @ - 1]
    /\ UNCHANGED << environ, tasks, now, remote >>

-----------------------------------------------------------------------------
(* Specification SpecCache: the cached file under searches in a group chat, *)
(* the admin's /refresh and /restart, changes of the Drive and of the local  *)
(* cache directory, and the clock.                                           *)

\* the logical dates that have a dated file on the Drive at some time
DatePool == {Today(T0), Today(T0) - 1}

\* by how much the clock may advance between two updates, seconds
CacheClockSteps == {Hours(TIMEZONE_OFFSET)}

\* the process has started on an empty Drive: nothing was preloaded
InitCache ==
    /\ user_activity = FreshState.ua
    /\ banned_users = FreshState.bu
    /\ user_ban_times = FreshState.bt
    /\ user_ban_start_times = FreshState.bs
    /\ ban_count = EmptyDict
    /\ accepted_calls = EmptyDict
    /\ InitRest
    /\ budget = [msgs |-> MaxCacheOps, ticks |-> MaxCacheTicks, mods |-> MaxMods]

\* the dated file of logical date d is uploaded or modified on the Drive
RemoteModify(d) ==
    /\ budget.mods > 0
    /\ DictGet(remote, d, now - 1) # now
    /\ remote' = DictSet(remote, d, now)
    /\ budget' = [budget EXCEPT !.mods = @ - 1]
    /\ last' = Op("drive", <<>>)
    /\ replies' = <<>>
    /\ UNCHANGED << environ, accepted_calls, tasks, now, rateVars, accessVars, cacheVars, localfs, ban_count >>

\* a file of the local cache directory is removed
LocalDelete(local_path) ==
    /\ budget.mods > 0
    /\ local_path \in DOMAIN localfs
    /\ localfs' = DictPop(localfs, local_path)
    /\ budget' = [budget EXCEPT !.mods = @ - 1]
    /\ last' = Op("rm", <<>>)
    /\ replies' = <<>>
    /\ UNCHANGED << environ, accepted_calls, tasks, now, rateVars, accessVars, cacheVars, remote, ban_count >>

NextCache ==
    \/ \E metaOk \in BOOLEAN, outcome \in DownloadOutcomes :
          GroupSearch(SenderBob, metaOk, outcome)
    \/ \E metaOk \in BOOLEAN, outcome \in DownloadOutcomes :
          Refresh(SenderAdmin, metaOk, outcome)
    \/ \E drive \in [DOMAIN remote -> DriveOutcomes] : Restart(SenderAdmin, drive)
    \/ \E d \in DatePool : RemoteModify(d)
    \/ \E d \in DatePool : LocalDelete(LocalPath(d))
    \/ \E d \in CacheClockSteps : Tick(d)

SpecCache == InitCache /\ [][NextCache]_vars

-----------------------------------------------------------------------------
(* Properties of the cached file, checked under SpecCache *)

\* the step just taken is a search that passed the rate-limit gates while a
\* preloaded file was recorded
LookupStep ==
    /\ last'.op = "handle_search" /\ last'.ret
    /\ LAST_FILE_ID # None /\ LAST_FILE_LOCAL_PATH # None

\* the step just taken is a start of the process (main, with its preload)
PreloadStep == last'.op = "main"

\* the modified time a successful metadata request returns for date d
ObservedTime(d) == remote[d] + Hours(TIMEZONE_OFFSET)

\* the codes of the replies that carry the outcome of the spreadsheet scan
ResultCodes == {"result", "no_terminal"}

\* the codes of the replies that tell the end user the data may be old
WarningCodes == {"file_update_error", "file_update_success"}

\* C8: the cache never downloads an unchanged file again: when the local
\* copy holds the version the Drive still has, a lookup (a search, or the
\* preload of a start) that observes the remote modified time performs no
\* download of that file.
C8_NoDownloadOfUnchangedFile ==
    [][\A d \in DOMAIN remote :
          (/\ last'.op \in {"handle_search", "main"}
           /\ FileId(d) \in last'.meta_ok
           /\ LocalPath(d) \in DOMAIN localfs
           /\ localfs[LocalPath(d)].content = remote[d])
          => FileId(d) \notin last'.dl
      ]_vars

\* C9: a search that reaches the freshness check and gets the remote
\* modified time starts a download when that time is strictly newer than
\* the recorded one (or none is recorded); a search that finds no local copy
\* of the recorded file starts no download and no scan, it replies that the
\* local file is gone and leaves the cache as it was; the preload of a start
\* downloads every file whose modified time it gets and that has no local
\* copy.
C9_DownloadWhenNewer ==
    [][/\ LookupStep =>
            LET id == LAST_FILE_ID[1]
                path == LAST_FILE_LOCAL_PATH[1]
            IN  IF path \notin DOMAIN localfs
                THEN /\ last'.dl = {} /\ last'.meta_ok = {} /\ last'.scan = << >>
                     /\ localfs' = localfs
                     /\ LAST_FILE_DRIVE_TIME' = LAST_FILE_DRIVE_TIME
                     /\ replies' = << Reply("search_start", 0),
                                      Reply("file_not_found_local", 0) >>
                ELSE (/\ id \in last'.meta_ok
                      /\ \/ LAST_FILE_DRIVE_TIME = None
                         \/ ObservedTime(id[2]) > LAST_FILE_DRIVE_TIME[1])
                     => id \in last'.dl
       /\ PreloadStep =>
            \A d \in DOMAIN remote :
                (FileId(d) \in last'.meta_ok /\ LocalPath(d) \notin DOMAIN localfs)
                => FileId(d) \in last'.dl
      ]_vars

\* C9, witness: a search has just downloaded the recorded file because the
\* Drive held a newer version than the one recorded, and it scanned the new
\* version.
C9_Witness ==
    /\ last.op = "handle_search" /\ last.ret
    /\ LAST_FILE_ID # None /\ LAST_FILE_LOCAL_PATH # None
    /\ LAST_FILE_ID[1] \in last.dl
    /\ LAST_FILE_DRIVE_TIME = Some(ObservedTime(LAST_FILE_ID[1][2]))
    /\ LAST_FILE_LOCAL_PATH[1] \in DOMAIN localfs
    /\ localfs[LAST_FILE_LOCAL_PATH[1]].mtime = now
    /\ localfs[LAST_FILE_LOCAL_PATH[1]].content = remote[LAST_FILE_ID[1][2]]
    /\ remote[LAST_FILE_ID[1][2]] > T0
    /\ last.scan = << remote[LAST_FILE_ID[1][2]] >>

\* C9 as stated: a lookup always downloads the file when the remote modified
\* time is strictly newer than the recorded one, and also when no local copy
\* of the cached file exists at the time of the lookup.
C9_AlwaysDownloads ==
    [][LookupStep =>
          LET id == LAST_FILE_ID[1]
              path == LAST_FILE_LOCAL_PATH[1]
          IN  /\ (/\ id \in last'.meta_ok
                  /\ \/ LAST_FILE_DRIVE_TIME = None
                     \/ ObservedTime(id[2]) > LAST_FILE_DRIVE_TIME[1])
                 => id \in last'.dl
              /\ path \notin DOMAIN localfs => id \in last'.dl
      ]_vars

\* C10: when the metadata request fails during a search, the search starts no
\* download, keeps the recorded time and the local files, scans the local
\* copy and sends the status message and then the outcome of the scan: no
\* warning goes to the end user (the failure is only logged).
C10_MetadataFailureServesLocalCopy ==
    [][(LookupStep /\ last'.meta_failed # {}) =>
          LET path == LAST_FILE_LOCAL_PATH[1] IN
          /\ last'.dl = {}
          /\ localfs' = localfs
          /\ LAST_FILE_DRIVE_TIME' = LAST_FILE_DRIVE_TIME
          /\ path \in DOMAIN localfs
          /\ last'.scan = << localfs[path].content >>
          /\ Len(replies') = 2
          /\ replies'[1].code = "search_start"
          /\ replies'[2].code \in ResultCodes
          /\ replies'[2].code = "result" => replies'[2].arg = localfs[path].content
      ]_vars

\* C10, witness: a search whose metadata request failed has just answered
\* with a row of the local copy.
C10_Witness ==
    /\ last.op = "handle_search" /\ last.ret
    /\ last.meta_failed # {}
    /\ last.scan # << >>
    /\ Len(replies) = 2 /\ replies[2].code = "result"
    /\ replies[2].arg = localfs[LAST_FILE_LOCAL_PATH[1]].content

\* C10 as stated: when the metadata request fails during a lookup, the
\* lookup runs on the local copy and a warning that the results may be
\* outdated is sent to the end user before the results.
C10_WarningBeforeResults ==
    (last.op = "handle_search" /\ last.ret /\ last.meta_failed # {}) =>
        /\ last.scan # << >>
        /\ \E i, j \in 1..Len(replies) :
              /\ i < j
              /\ replies[i].code \in WarningCodes
              /\ replies[j].code \in ResultCodes

\* C19: a search that passed the gates while no file is recorded, or while
\* the recorded local file does not exist, gets the no-data reply (after the
\* status reply) and nothing else: no scan is started, nothing is asked of
\* the Drive, the local files and the cached-file metadata stay as they were.
C19_NoDataNoScan ==
    [][(/\ last'.op = "handle_search" /\ last'.ret
        /\ \/ LAST_FILE_ID = None
           \/ LAST_FILE_LOCAL_PATH = None
           \/ LAST_FILE_LOCAL_PATH[1] \notin DOMAIN localfs) =>
          /\ replies' = << Reply("search_start", 0),
                           Reply(IF LAST_FILE_ID = None \/ LAST_FILE_LOCAL_PATH = None
                                 THEN "no_file" ELSE "file_not_found_local", 0) >>
          /\ last'.scan = << >>
          /\ last'.dl = {} /\ last'.meta_ok = {} /\ last'.meta_failed = {}
          /\ localfs' = localfs
          /\ UNCHANGED cacheVars
      ]_vars

\* a search found the recorded local file gone, the file still on the Drive
C19_Witness ==
    /\ last.op = "handle_search" /\ last.ret
    /\ LAST_FILE_ID # None /\ LAST_FILE_LOCAL_PATH # None
    /\ LAST_FILE_ID[1][2] \in DOMAIN remote
    /\ LAST_FILE_LOCAL_PATH[1] \notin DOMAIN localfs
    /\ replies = << Reply("search_start", 0), Reply("file_not_found_local", 0) >>

-----------------------------------------------------------------------------
(* Properties of the reload of the lists, checked under SpecAccess *)

\* the identities of the lines of a fetched list file
Fetched(lines) == { CleanLine(l) : l \in lines } \ { << >> }

\* what a reload that was given the input i must leave in memory
ReloadedTo(i, wl, bl) ==
    /\ wl = (IF i.wl_ok THEN Fetched(i.wl) ELSE {})
    /\ bl = (IF i.bl_ok THEN Fetched(i.bl) ELSE {})

\* C11: a reload replaces both in-memory sets by what was fetched (what was
\* in memory and is not in the fetched text is gone); a failed or empty fetch
\* of one list leaves that list empty, so after a failed allow-list fetch
\* every non-empty identity that is not on the deny-list is allowed, and
\* after a failed deny-list fetch the deny-list holds nobody: an identity is
\* then refused only when it is empty or kept out by a non-empty allow-list.
C11_ReloadReplacesLists ==
    (last.op = "reload_lists" /\ IsAdmin(last.user)) =>
        LET i == last.inp IN
        /\ ReloadedTo(i, whitelist, blacklist)
        /\ (~i.wl_ok \/ Fetched(i.wl) = {}) =>
              /\ whitelist = {}
              /\ \A u \in Identities \ { << >> } :
                    Lower(u) \notin blacklist => is_allowed(u, blacklist, whitelist)
        /\ (~i.bl_ok \/ Fetched(i.bl) = {}) =>
              /\ blacklist = {}
              /\ \A u \in Identities \ { << >> } :
                    (whitelist = {} \/ Lower(u) \in whitelist)
                    => is_allowed(u, blacklist, whitelist)

\* C11, witness: a reload whose allow-list fetch failed although the file
\* has lines has just left the allow-list empty and the deny-list filled.
C11_Witness ==
    /\ last.op = "reload_lists" /\ IsAdmin(last.user)
    /\ ~last.inp.wl_ok /\ Fetched(last.inp.wl) # {}
    /\ whitelist = {}
    /\ blacklist # {}

\* C11 as stated: a reload replaces both sets by what was fetched; after a
\* failed allow-list fetch every identity that is not on the deny-list is
\* allowed, and after a failed deny-list fetch the deny-list denies nobody.
C11_EveryNonDeniedIdentityAllowed ==
    (last.op = "reload_lists" /\ IsAdmin(last.user)) =>
        LET i == last.inp IN
        /\ ReloadedTo(i, whitelist, blacklist)
        /\ ~i.wl_ok =>
              \A u \in Identities :
                  Lower(u) \notin blacklist => is_allowed(u, blacklist, whitelist)
        /\ ~i.bl_ok => blacklist = {}

-----------------------------------------------------------------------------
(* Properties of the list commands, checked under SpecAccess *)

\* the last handler was an admin's list command `op` with the action
\* `action`, at least one username and the permission to write
ListCommand(op, action) ==
    /\ last.op = op /\ IsAdmin(last.user)
    /\ Len(last.inp.args) > 1
    /\ Lower(last.inp.args[1]) = action
    /\ last.inp.can_write

\* the same about the step just taken
ListCommandStep(op, action) ==
    /\ last'.op = op /\ IsAdmin(last'.user)
    /\ Len(last'.inp.args) > 1
    /\ Lower(last'.inp.args[1]) = action
    /\ last'.inp.can_write

C13_DenyListAdd ==
    (ListCommand("manage_blacklist", <<"a","d","d">>) /\ last.inp.write_ok) =>
        \A u \in Elems(CommandUsernames(last.inp.args)) :
            u \in blacklist /\ u \notin whitelist

\* C24: in every reachable state the allow-list and the deny-list hold only
\* non-empty, lowercased identity strings without a leading '@', whether a
\* reload or an admin's add or remove command put them there.
C24_ListsNormalised ==
    \A u \in whitelist \cup blacklist :
        /\ u # << >>
        /\ u = Lower(u)
        /\ u[1] # "@"

\* C38: after an allow-list add or remove command whose write to the Drive
\* succeeded, a reload that reads back the file as it was written leaves the
\* allow-list in memory exactly as the command left it.
C38_WriteBackRoundTrip ==
    [][(/\ last.op = "manage_whitelist" /\ replies # << >>
        /\ replies[1].code \in {"list_update_success_add", "list_update_success_remove"}
        /\ last'.op = "reload_lists"
        /\ last'.inp.wl_ok /\ last'.inp.wl = update_list_file(whitelist))
       => whitelist' = whitelist ]_vars

-----------------------------------------------------------------------------
(* Specification SpecAdmin: the admin commands, sent by an admin, by a    *)
(* sender who is no admin and by a sender without a handle, to a process   *)
(* that has loaded its lists, preloaded today's file and met bob.          *)

\* how many /reset_bans and /refresh commands a run has
MaxAdminOps == 2

\* eleven messages at T0: ten accepted, the eleventh banned bob
HistBanned == << [at |-> T0, n |-> 11] >>

\* a sender without a handle
SenderAnon == Sender(<< >>, <<"9">>)

AdminSenders == {SenderAdmin, SenderBob, SenderAnon}

\* what the list downloads of the /reload_lists commands give
AdminFetches ==
    { [lines |-> { <<"Y","o","p","t","V","a","y","o","u">>, <<"@","B","o","b">> }, ok |-> TRUE],
      [lines |-> LinePool, ok |-> FALSE] }

\* the context.args of the list commands
AdminArgs ==
    { << <<"s","h","o","w">> >>,
      << <<"a","d","d">>, <<"@","B","o","b">>, <<"e","v","e">> >>,
      << <<"r","e","m","o","v","e">>, <<"@","b","o","b">>, <<"E","v","e">> >> }

\* main has run: the allow-list file held wlLines, the deny-list file
\* " eve ", today's file was on the Drive and was downloaded; then bob wrote
InitLoaded(wlLines) ==
    /\ now = T0
    /\ \E h \in {HistBurst, HistBanned} :
         LET H == Replay(bob, h) IN
         /\ user_activity = H.S.ua
         /\ banned_users = H.S.bu
         /\ user_ban_times = H.S.bt
         /\ user_ban_start_times = H.S.bs
         /\ ban_count = IF H.bans > 0 THEN DictSet(EmptyDict, bob, H.bans) ELSE EmptyDict
         /\ accepted_calls = H.acc
    /\ whitelist = download_list(wlLines, TRUE)
    /\ blacklist = download_list({ <<" ","e","v","e"," ">>, << >> }, TRUE)
    /\ remote = DictSet(EmptyDict, Today(T0), T0 - 60)
    /\ LET P == preload_latest_file(EmptyDict, remote, T0,
                                    [d \in DOMAIN remote |-> "ok"])
       IN  /\ LAST_FILE_ID = P.cache.id
           /\ LAST_FILE_DATE = P.cache.date
           /\ LAST_FILE_DRIVE_TIME = P.cache.drive_time
           /\ LAST_FILE_LOCAL_PATH = P.cache.path
           /\ localfs = P.fs
    /\ last = Op("main", <<>>)
    /\ replies = <<>>
    /\ tasks = EmptyDict
    /\ environ = EnvNames

InitAdmin ==
    /\ InitLoaded({ <<"@","B","o","b">> })
    /\ budget = [msgs |-> MaxAdminOps, ticks |-> 0, mods |-> 0]

NextAdmin ==
    \/ \E s \in AdminSenders, args \in ResetArgs \cup { << >> } : ResetBans(s, args)
    \/ \E s \in AdminSenders, wl \in AdminFetches, bl \in AdminFetches :
          ReloadLists(s, wl.lines, wl.ok, bl.lines, bl.ok)
    \/ \E s \in AdminSenders, args \in AdminArgs, canWrite, writeOk \in BOOLEAN :
          ManageWhitelist(s, args, canWrite, writeOk)
    \/ \E s \in AdminSenders, args \in AdminArgs, canWrite, writeOk \in BOOLEAN :
          ManageBlacklist(s, args, canWrite, writeOk)
    \/ \E s \in AdminSenders, metaOk \in BOOLEAN, outcome \in DownloadOutcomes :
          Refresh(s, metaOk, outcome)

SpecAdmin == InitAdmin /\ [][NextAdmin]_vars

-----------------------------------------------------------------------------
(* Properties of the admin commands, checked under SpecAdmin *)

AdminCommands ==
    {"reload_lists", "reset_bans", "refresh_file", "manage_whitelist", "manage_blacklist"}

\* the handle is absent, or its lowercase form is none of the lowercased
\* ALLOWED_USERS
NoAdminHandle(username) ==
    username = << >> \/ \A a \in ALLOWED_USERS : Lower(username) # Lower(a)

\* C14: a reload-lists, reset-limits, refresh or allow/deny-list command
\* whose sender has no handle, or a handle that is not in the admin set
\* compared case-insensitively, leaves the allow-list, the deny-list, the
\* four rate-limit and ban tables and the cached-file metadata unchanged.
C14_AdminOnly ==
    [][(last'.op \in AdminCommands /\ NoAdminHandle(last'.user)) =>
          /\ UNCHANGED accessVars
          /\ UNCHANGED rateVars
          /\ UNCHANGED cacheVars
      ]_vars

\* a sender without a handle has asked to reset everything while bob was
\* banned, the lists were loaded and a file was cached
C14_Witness ==
    /\ last.op = "reset_bans" /\ last.user = << >>
    /\ last.inp.args = << <<"a","l","l">> >>
    /\ bob \in banned_users
    /\ whitelist # {} /\ blacklist # {}
    /\ LAST_FILE_ID # None /\ LAST_FILE_DRIVE_TIME # None

-----------------------------------------------------------------------------
(* Specification SpecSearch: search requests in the four chat types, from  *)
(* bob, from eve, who is on the deny-list, and from a sender without a      *)
(* handle, to a process that has loaded its lists and preloaded a file.     *)

\* how many search requests a run has
MaxSearchOps == 2

eve == <<"e","v","e">>

SenderEve == Sender(eve, <<"8">>)

SearchSenders == {SenderBob, SenderEve, SenderAnon}

ChatTypes == {"private", "group", "supergroup", "channel"}

\* the queries: a serial number, one with a '#' inside, one without any
\* letter or digit, two parts of which the second is a serial number, nothing
SearchQueries ==
    { SerialQuery, <<"a","b","-","#","1","2">>, <<"#","?">>,
      <<"#",",","a","b","-","1","2">>, << >> }

InitSearch ==
    /\ \E wlLines \in { {}, { <<"@","B","o","b">> } } : InitLoaded(wlLines)
    /\ budget = [msgs |-> MaxSearchOps, ticks |-> 0, mods |-> 0]

NextSearch ==
    \E chat \in ChatTypes, s \in SearchSenders, query \in SearchQueries, metaOk \in BOOLEAN :
        Search(chat, s, query, metaOk, "ok")

SpecSearch == InitSearch /\ [][NextSearch]_vars

-----------------------------------------------------------------------------
(* Properties of the search requests, checked under SpecSearch *)

\* the last request came to nothing but the replies listed: no call of the
\* rate limiter, nothing asked of the Drive, no scan
OnlyReplied(codes) ==
    /\ last.calls = 0 /\ last.scan = << >>
    /\ last.meta_ok = {} /\ last.meta_failed = {} /\ last.dl = {}
    /\ \A i \in DOMAIN replies : replies[i].code \in codes

\* C15: in a private chat, a search request of a sender without a handle,
\* or of one the four-step precedence refuses (a non-admin on the deny-list
\* among them), gets the access-denied reply before the rate limiter and
\* before any lookup; in a group, a supergroup or a channel there is no
\* access gate: the request of a sender the rate limiter accepts, with a
\* serial number in it, reaches the lookup whoever sent it.
C15_PrivateChatGate ==
    last.op = "handle_search" =>
        LET u == Lower(last.inp.sender) IN
        IF last.inp.chat = "private"
        THEN (last.inp.sender = << >> \/ ~Precedence(u)) =>
                 /\ OnlyReplied({"access_denied"}) /\ replies # << >>
        ELSE (last.ret /\ SearchNumbers(last.inp.query) # << >>) =>
                 /\ replies # << >> /\ replies[1].code = "search_start"
                 /\ last.scan # << >>

\* eve, on the deny-list and no admin, was refused in a private chat
C15_Witness ==
    /\ last.op = "handle_search" /\ last.inp.chat = "private"
    /\ last.inp.sender = eve /\ eve \in blacklist /\ whitelist = {}
    /\ last.inp.query = SerialQuery
    /\ replies = << Reply("access_denied", 0) >>

\* C15 as stated: in every chat type, the request of a non-admin identity
\* on the deny-list never reaches the spreadsheet scan and gets no results
C15_DeniedNeverSearches ==
    (/\ last.op = "handle_search"
     /\ last.inp.sender # << >>
     /\ Lower(last.inp.sender) \notin AdminSet
     /\ Lower(last.inp.sender) \in blacklist) =>
        /\ last.scan = << >>
        /\ \A i \in DOMAIN replies : replies[i].code \notin ResultCodes

\* C27: a sender without a handle is identified by its numeric id in a group
\* or a supergroup, where its search request goes to the rate limiter under
\* that id and, accepted and with a serial number in it, to the lookup; in a
\* private chat its request gets the access-denied reply before the rate
\* limiter and the lookup, whatever the lists hold.
C27_HandlelessSender ==
    (last.op = "handle_search" /\ last.inp.sender = << >>) =>
        /\ last.inp.chat = "private" =>
              /\ OnlyReplied({"access_denied"}) /\ replies # << >>
              /\ ~last.ret
        /\ last.inp.chat \in {"group", "supergroup"} =>
              /\ last.user = SenderAnon.id
              /\ last.calls >= 1
              /\ SenderAnon.id \in DOMAIN user_activity
              /\ (last.ret /\ SearchNumbers(last.inp.query) # << >>) => last.scan # << >>

\* C27, witness: with an empty allow-list and a deny-list that does not hold
\* its id, the sender without a handle was refused in a private chat.
C27_Witness ==
    /\ last.op = "handle_search" /\ last.inp.sender = << >>
    /\ last.inp.chat = "private" /\ last.inp.query = SerialQuery
    /\ whitelist = {} /\ SenderAnon.id \notin blacklist
    /\ replies = << Reply("access_denied", 0) >>
    /\ SenderAnon.id \notin DOMAIN user_activity

\* C27 as stated: with an empty allow-list and its id not on the deny-list,
\* the search request of a sender without a handle in a private chat reaches
\* the rate limiter and the lookup.
C27_HandlelessAllowedInPrivate ==
    (/\ last.op = "handle_search" /\ last.inp.sender = << >>
     /\ last.inp.chat = "private" /\ last.inp.query = SerialQuery
     /\ whitelist = {} /\ SenderAnon.id \notin blacklist) =>
        /\ last.calls >= 1
        /\ last.scan # << >>

\* C36: in a private chat, a message of a sender that the access control
\* does not allow is answered with the access-denied reply before the rate
\* limiter runs: the activity windows, the ban set and the ban records are
\* the same after the message as before it.
C36_RefusedBeforeLimiter ==
    [][(/\ last'.op = "handle_search" /\ last'.inp.chat = "private"
        /\ \/ last'.inp.sender = << >>
           \/ ~Precedence(Lower(last'.inp.sender)))
       => /\ UNCHANGED rateVars
          /\ replies' = << Reply("access_denied", 0) >>
          /\ last'.calls = 0 ]_vars

\* C36, witness: eve, on the deny-list, has requests recorded from a group
\* chat and has just been refused in a private chat.
C36_Witness ==
    /\ last.op = "handle_search" /\ last.inp.chat = "private"
    /\ last.inp.sender = eve /\ eve \in blacklist
    /\ replies = << Reply("access_denied", 0) >>
    /\ eve \in DOMAIN user_activity
    /\ Len(user_activity[eve].minute) = 2
    /\ eve \notin banned_users

\* C28: the handling of one inbound search message runs the rate-limit check
\* at most once and appends at most one timestamp to each window of the
\* sender.
C28_OneCheckPerMessage ==
    [][last'.op = "handle_search" =>
          /\ last'.calls <= 1
          /\ last'.user \in DOMAIN user_activity' =>
                \A P \in DOMAIN MESSAGE_LIMITS :
                    Len(user_activity'[last'.user][P])
                        <= Len(Activity(user_activity, last'.user)[P]) + 1
      ]_vars

\* the step is a search request that passed the access gate and the rate
\* limiter, with a query
AcceptedSearchStep ==
    last'.op = "handle_search" /\ last'.ret /\ last'.inp.query # << >>

\* C16: the characters of a query that are no letter, digit or '-' are taken
\* out of it. A query in which nothing else is left is answered with the
\* validation message alone: no lookup, nothing asked of the Drive, the
\* cached-file metadata and the local files as they were. A query in which a
\* letter, a digit or a '-' is left is looked up. In both cases the rate
\* limiter has handled the message before: the rate tables are not what they
\* were.
C16_DisallowedCharactersDropped ==
    [][AcceptedSearchStep =>
          LET query == last'.inp.query IN
          /\ rateVars' # rateVars
          /\ IF \A i \in DOMAIN query : query[i] \notin SerialChars
             THEN /\ replies' = << Reply("invalid_number", 0) >>
                  /\ last'.scan = << >> /\ last'.dl = {}
                  /\ last'.meta_ok = {} /\ last'.meta_failed = {}
                  /\ UNCHANGED cacheVars
                  /\ localfs' = localfs
             ELSE /\ replies'[1].code = "search_start"
                  /\ last'.scan # << >>
      ]_vars

\* "ab-#12" was looked up
C16_Witness ==
    /\ last.op = "handle_search" /\ last.ret
    /\ last.inp.query = <<"a","b","-","#","1","2">>
    /\ last.scan # << >>
    /\ \E i \in DOMAIN replies : replies[i].code = "result"

\* C16 as stated: a query with a character that is no letter, digit or '-'
\* gets the validation message, no lookup, and changes no state
C16_DisallowedCharacterRejected ==
    [][(/\ AcceptedSearchStep
        /\ \E i \in DOMAIN last'.inp.query :
              last'.inp.query[i] \notin SerialChars \cup {","}) =>
          /\ replies' = << Reply("invalid_number", 0) >>
          /\ last'.scan = << >>
          /\ UNCHANGED rateVars
          /\ UNCHANGED cacheVars
      ]_vars

-----------------------------------------------------------------------------
(* Properties of /reset_bans, checked under Spec *)

\* C17: after an admin's reset-limits command for an identity, the identity
\* is not in the ban set, has no ban start and no ban duration recorded and
\* its three activity windows are empty; after the command with the target
\* 'all', the activity table, the ban set and both ban maps are empty.
C17_ResetClears ==
    (last.op = "reset_bans" /\ IsAdmin(last.user) /\ last.inp.args # << >>) =>
        LET target == last.inp.args[1] IN
        IF Lower(target) = <<"a","l","l">>
        THEN /\ user_activity = EmptyDict /\ banned_users = {}
             /\ user_ban_times = EmptyDict /\ user_ban_start_times = EmptyDict
        ELSE /\ target \notin banned_users
             /\ target \notin DOMAIN user_ban_start_times
             /\ target \notin DOMAIN user_ban_times
             /\ Activity(user_activity, target) = EmptyActivity

-----------------------------------------------------------------------------
(* Specification SpecPreload: starts of the process (the admin's /restart) *)
(* with dated files at both ends of the range preload_latest_file walks    *)
(* and copies of earlier runs in the cache directory.                      *)

\* how many times the process is started again
MaxPreloadOps == 1

Day == 24 * 60 * 60

\* the logical dates that may have a dated file on the Drive: today, the
\* last day of the range and the day before it
PreloadDates == { Today(T0), Today(T0) - (PRELOAD_DAYS - 1), Today(T0) - PRELOAD_DAYS }

\* the copy an earlier run downloaded yesterday, of a file modified the day
\* before
OldCopy == [mtime |-> T0 - Day, content |-> T0 - 2 * Day]

\* the process has started when no dated file of the range was on the Drive.
\* Since then the files of the dates D were uploaded; those of Modified were
\* modified a minute ago, the others two days ago. The cache directory holds
\* the copies earlier runs made of the files of Copied.
InitPreload ==
    /\ now = T0
    /\ user_activity = FreshState.ua
    /\ banned_users = FreshState.bu
    /\ user_ban_times = FreshState.bt
    /\ user_ban_start_times = FreshState.bs
    /\ ban_count = EmptyDict
    /\ accepted_calls = EmptyDict
    /\ whitelist = {}
    /\ blacklist = {}
    /\ LAST_FILE_ID = None
    /\ LAST_FILE_DATE = None
    /\ LAST_FILE_DRIVE_TIME = None
    /\ LAST_FILE_LOCAL_PATH = None
    /\ \E D \in SUBSET PreloadDates :
       \E Copied \in SUBSET D :
       \E Modified \in SUBSET Copied :
          /\ remote = [d \in D |-> IF d \in Modified THEN T0 - 60 ELSE T0 - 2 * Day]
          /\ localfs = [path \in { LocalPath(d) : d \in Copied } |-> OldCopy]
    /\ last = Op("start", <<>>)
    /\ replies = <<>>
    /\ tasks = EmptyDict
    /\ environ = EnvNames
    /\ budget = [msgs |-> MaxPreloadOps, ticks |-> 0, mods |-> 0]

NextPreload ==
    \E drive \in [DOMAIN remote -> DriveOutcomes] : Restart(SenderAdmin, drive)

SpecPreload == InitPreload /\ [][NextPreload]_vars

-----------------------------------------------------------------------------
(* Properties of the preload, checked under SpecPreload *)

\* the local copy of date d is there and not older than the time the Drive
\* gives for the file
CurrentCopy(d) ==
    /\ LocalPath(d) \in DOMAIN localfs
    /\ remote[d] + Hours(TIMEZONE_OFFSET) <= localfs[LocalPath(d)].mtime

\* date d can be served by the preload that is given `drive`: its file is on
\* the Drive, its modified time is returned, and the local copy is current
\* or the download succeeds
Qualifies(d, drive) ==
    /\ d \in DOMAIN remote
    /\ drive[d] # "meta_failed"
    /\ CurrentCopy(d) \/ drive[d] = "ok"

\* the same with any local copy, current or not
QualifiesWithAnyCopy(d, drive) ==
    /\ d \in DOMAIN remote
    /\ drive[d] # "meta_failed"
    /\ LocalPath(d) \in DOMAIN localfs \/ drive[d] = "ok"

\* the preload of the step ends with the metadata of the first of today,
\* yesterday, ..., 30 days ago for which Q holds, with no metadata when
\* there is none
PreloadEndsAtFirst(Q(_, _)) ==
    LET drive == last'.inp.drive
        today == Today(now)
        K == { k \in 0..30 : Q(today - k, drive) }
    IN  IF K = {}
        THEN /\ LAST_FILE_ID' = None /\ LAST_FILE_DATE' = None
             /\ LAST_FILE_DRIVE_TIME' = None /\ LAST_FILE_LOCAL_PATH' = None
        ELSE LET k == CHOOSE i \in K : \A j \in K : i <= j
                 d == today - k
             IN  /\ LAST_FILE_ID' = Some(FileId(d))
                 /\ LAST_FILE_DATE' = Some(d)
                 /\ LAST_FILE_DRIVE_TIME' = Some(remote[d] + Hours(TIMEZONE_OFFSET))
                 /\ LAST_FILE_LOCAL_PATH' = Some(LocalPath(d))
                 /\ LocalPath(d) \in DOMAIN localfs'
                 /\ \A id \in last'.meta_ok \cup last'.meta_failed \cup last'.dl :
                       id[2] \in (today - k)..today

\* C18: at a start, preload_latest_file tries today and then the 30 days
\* before it, one by one, and stops at the first date whose dated file
\* resolves, whose modified time it gets and whose local copy is current
\* (not older than that time) or is downloaded with success; the cached-file
\* metadata then describes that date, and nothing is asked about an older
\* date. A date whose local copy is older than the file and whose download
\* fails is passed over. When no date of the range qualifies, file id, date,
\* drive time and local path are all None.
C18_PreloadWalk ==
    [][PreloadStep => PreloadEndsAtFirst(Qualifies)]_vars

\* the preload passed over today, whose download failed, and took the file
\* of 30 days ago, while a file of 31 days ago was on the Drive too
C18_Witness ==
    /\ last.op = "main"
    /\ DOMAIN remote = PreloadDates
    /\ last.inp.drive[Today(now)] \in {"fail_before_open", "fail_after_open"}
    /\ LAST_FILE_DATE = Some(Today(now) - 30)
    /\ FileId(Today(now)) \in last.dl

\* C18 as stated: the walk stops at the first date whose file resolves,
\* whose modified time is available and whose local copy is present or
\* downloaded
C18_StopsAtAnyLocalCopy ==
    [][PreloadStep => PreloadEndsAtFirst(QualifiesWithAnyCopy)]_vars

-----------------------------------------------------------------------------
(* Specification SpecLines: reloads of the lists from files whose lines    *)
(* carry '@' and blanks in every position.                                 *)

\* the lines a list file may hold
LineSamples ==
    { <<"@","B","o","b">>, <<" ","e","v","e"," ">>, << >>, <<" ","@"," ">>,
      <<"@","@","b","o","b">>, <<"a","@","b">>, <<"@"," ","E","v","e">> }

NextLines ==
    \E wlLines \in SUBSET LineSamples, wlOk \in BOOLEAN :
        ReloadLists(SenderAdmin, wlLines, wlOk, { <<"e","v","e","@">> }, TRUE)

SpecLines == InitAccess /\ [][NextLines]_vars

-----------------------------------------------------------------------------
(* Properties of the lines of a list file, checked under SpecLines *)

\* the line between its first and its last character that is no blank
Trimmed(line) ==
    LET I == { i \in DOMAIN line : line[i] \notin Whitespace } IN
    IF I = {} THEN << >>
    ELSE SubSeq(line, CHOOSE i \in I : \A j \in I : i <= j,
                      CHOOSE i \in I : \A j \in I : i >= j)

RECURSIVE WithoutAts(_)
\* s without its '@' characters, the others in their order
WithoutAts(s) ==
    IF s = << >> THEN << >>
    ELSE IF Head(s) = "@" THEN WithoutAts(Tail(s))
    ELSE << Head(s) >> \o WithoutAts(Tail(s))

\* s without one leading '@'
WithoutLeadingAt(s) == IF s # << >> /\ s[1] = "@" THEN SubSeq(s, 2, Len(s)) ELSE s

\* the last handler was an admin's reload that fetched the allow-list file
FetchedAllowList ==
    last.op = "reload_lists" /\ IsAdmin(last.user) /\ last.inp.wl_ok

\* C20: for every line of a fetched list, the loaded identity is the line
\* with the surrounding whitespace trimmed, the letters lowercased and every
\* '@' removed, wherever it stands in the line; lines that are empty after
\* this are ignored; no other character is removed or changed (a blank that
\* follows a leading '@' stays).
C20_EveryAtRemoved ==
    FetchedAllowList =>
        /\ whitelist = { WithoutAts(Lower(Trimmed(l))) : l \in last.inp.wl } \ { << >> }
        /\ blacklist = { <<"e","v","e">> }

\* "@@bob" and "a@b" were loaded as "bob" and "ab"
C20_Witness ==
    /\ FetchedAllowList
    /\ { <<"@","@","b","o","b">>, <<"a","@","b">> } \subseteq last.inp.wl
    /\ { <<"b","o","b">>, <<"a","b">> } \subseteq whitelist

\* C20 as stated: one leading '@' is stripped and no other character is
\* removed or changed
C20_OneLeadingAtStripped ==
    FetchedAllowList =>
        whitelist = { WithoutLeadingAt(Lower(Trimmed(l))) : l \in last.inp.wl } \ { << >> }

-----------------------------------------------------------------------------
(* Further properties of the rate limiter, checked under Spec *)

\* the length of a period, seconds
PeriodLength == [minute |-> 60, hour |-> 60 * 60, day |-> 24 * 60 * 60]

\* C21: a call of check_user_limit for an identity that is not banned
\* compares windows that have just been evicted: each window then holds
\* only timestamps t with now - t strictly below its period (1 minute,
\* 1 hour, 1 day), a timestamp aged exactly one period is gone, and no
\* younger timestamp was removed.
C21_ComparedWindowsEvicted ==
    [][\A s \in RateSenders :
          LET u == Key(s) IN
          (CheckedStep(u) /\ u \notin banned_users) =>
              \A P \in DOMAIN PeriodLength :
                  LET old == Activity(user_activity, u)[P]
                      new == user_activity'[u][P]
                      kept == IF last'.ret THEN SubSeq(new, 1, Len(new) - 1) ELSE new
                  IN  /\ \A i \in DOMAIN kept :
                            /\ now - kept[i] < PeriodLength[P]
                            /\ kept[i] # now - PeriodLength[P]
                      /\ \A i \in DOMAIN old :
                            now - old[i] < PeriodLength[P] =>
                                \E j \in DOMAIN kept : kept[j] = old[i]
                      /\ Len(kept) <= Len(old)
      ]_vars

\* a message was accepted one minute after nine others: their timestamps,
\* aged exactly one minute, have left the minute window and are still in
\* the hour window
C21_Witness ==
    \E u \in DOMAIN user_activity :
        /\ last.op = "handle_message" /\ last.user = u /\ last.ret
        /\ user_activity[u].minute = << now >>
        /\ Len(user_activity[u].hour) = 10
        /\ user_activity[u].hour[1] = now - 60


\* the step just taken is a search or a refresh whose download succeeded
DownloadSucceededStep ==
    /\ last'.dl # {}
    /\ \/ /\ last'.op = "handle_search"
          /\ \A i \in DOMAIN replies' : replies'[i].code \notin WarningCodes
       \/ /\ last'.op = "refresh_file"
          /\ \E i \in DOMAIN replies' : replies'[i].code = "refresh_done"

\* C32: in a step that is not a start of the process, the recorded remote
\* modified time changes only when a download has just succeeded, and then to
\* the time observed; a failed download or a failed metadata request leaves
\* it as it was, and a lookup that gets a remote time newer than the recorded
\* one downloads.
C32_RecordedTimeFollowsDownloads ==
    [][~PreloadStep =>
          /\ LAST_FILE_DRIVE_TIME' # LAST_FILE_DRIVE_TIME =>
                /\ DownloadSucceededStep
                /\ LAST_FILE_DRIVE_TIME' = Some(ObservedTime(LAST_FILE_ID[1][2]))
          /\ (last'.meta_failed # {} \/ (last'.dl # {} /\ ~DownloadSucceededStep)) =>
                LAST_FILE_DRIVE_TIME' = LAST_FILE_DRIVE_TIME
          /\ (/\ LookupStep
              /\ last'.meta_ok # {}
              /\ LAST_FILE_DRIVE_TIME # None
              /\ ObservedTime(LAST_FILE_ID[1][2]) > LAST_FILE_DRIVE_TIME[1])
             => last'.dl = {LAST_FILE_ID[1]}
      ]_vars

\* C32, witness: the download of a search has just failed with the recorded
\* time behind the Drive's; the recorded time is still behind.
C32_Witness ==
    /\ last.op = "handle_search" /\ last.dl # {}
    /\ \E i \in DOMAIN replies : replies[i].code = "file_update_error"
    /\ LAST_FILE_DRIVE_TIME # None
    /\ LAST_FILE_DRIVE_TIME[1] < ObservedTime(LAST_FILE_ID[1][2])

\* the file id, the logical date and the local path of the cached file
ServedFileVars == << LAST_FILE_ID, LAST_FILE_DATE, LAST_FILE_LOCAL_PATH >>

\* C33: a search and a refresh command leave the file id, the logical date
\* and the local path of the cached file as they were; a step that changes
\* one of them is a start of the process with its preload.
C33_ServedFileFixed ==
    [][/\ last'.op \in {"handle_search", "refresh_file"} => UNCHANGED ServedFileVars
       /\ ServedFileVars' # ServedFileVars => PreloadStep
      ]_vars

\* C33, witness: a search has just scanned the file of an earlier date while
\* the Drive holds a file for today.
C33_Witness ==
    /\ last.op = "handle_search" /\ last.scan # << >>
    /\ LAST_FILE_DATE # None
    /\ LAST_FILE_DATE[1] < Today(now)
    /\ LAST_FILE_ID = Some(FileId(LAST_FILE_DATE[1]))
    /\ Today(now) \in DOMAIN remote

\* C31: at a start, a local copy whose filesystem mtime is at or after the
\* instant at which the remote file was last modified is taken as fresh: the
\* preload that gets the remote modified time does not download the file,
\* whatever TIMEZONE_OFFSET is.
C31_FreshLocalCopyNotDownloaded ==
    [][\A d \in DOMAIN remote :
          (/\ PreloadStep
           /\ FileId(d) \in last'.meta_ok
           /\ LocalPath(d) \in DOMAIN localfs
           /\ LocalTime(localfs, LocalPath(d)) >= remote[d])
          => FileId(d) \notin last'.dl
      ]_vars

\* C30: when the download that a lookup or an admin's refresh starts fails,
\* the local file that was cached before still has its old content, and the
\* search that goes on after the warning scans that old content.
C30_FailedDownloadKeepsOldCopy ==
    [][(/\ LAST_FILE_LOCAL_PATH # None
        /\ LAST_FILE_LOCAL_PATH[1] \in DOMAIN localfs
        /\ \/ /\ last'.op = "handle_search"
              /\ \E i \in DOMAIN replies' : replies'[i].code = "file_update_error"
           \/ /\ last'.op = "refresh_file"
              /\ \E i \in DOMAIN replies' : replies'[i].code = "refresh_failed")
       => LET path == LAST_FILE_LOCAL_PATH[1] IN
          /\ path \in DOMAIN localfs'
          /\ localfs'[path].content = localfs[path].content
          /\ last'.op = "handle_search" => last'.scan = << localfs[path].content >>
      ]_vars

\* the identities in the ban set that have no ban record
BannedWithoutRecord == banned_users \ DOMAIN user_ban_start_times

\* C34: the identities with a recorded ban start are those with a recorded
\* ban duration, and all of them are in the ban set; an identity comes to be
\* in the ban set without a ban record only by an admin's reset of that
\* identity, and the next check for it takes it out of the ban set and is
\* accepted.
C34_BanRecords ==
    [][/\ DOMAIN user_ban_start_times = DOMAIN user_ban_times
       /\ DOMAIN user_ban_start_times \subseteq banned_users
       /\ DOMAIN user_ban_start_times' = DOMAIN user_ban_times'
       /\ DOMAIN user_ban_start_times' \subseteq banned_users'
       /\ \A u \in BannedWithoutRecord' \ BannedWithoutRecord :
             /\ last'.op = "reset_bans"
             /\ Lower(last'.inp.args[1]) # <<"a","l","l">>
             /\ LStripAt(Lower(last'.inp.args[1])) = u
       /\ \A u \in BannedWithoutRecord :
             CheckedStep(u) => last'.ret /\ u \notin banned_users'
      ]_vars

\* C34, witness: the check that follows an admin's reset of a banned identity
\* has just been accepted and has taken the identity out of the ban set.
C34_Witness ==
    /\ last.op = "handle_message" /\ last.calls = 1 /\ last.ret
    /\ last.user \notin banned_users
    /\ last.user \in DOMAIN user_activity
    /\ user_activity[last.user].day = << >>

\* the sequence a is what is left of b after dropping some of its first items
IsSuffix(a, b) ==
    /\ Len(a) <= Len(b)
    /\ \A i \in 1..Len(a) : a[i] = b[Len(b) - Len(a) + i]

\* the timestamps of a window never decrease from the head to the tail
NonDecreasing(queue) ==
    \A i \in 1..(Len(queue) - 1) : queue[i] <= queue[i + 1]

\* C35: in every reachable state and for every identity the minute window is
\* a suffix of the hour window and the hour window a suffix of the day window
\* (so their sizes are ordered minute <= hour <= day), and the timestamps of
\* each window are non-decreasing; the clock of the model never goes
\* backwards.
C35_WindowsNested ==
    \A u \in DOMAIN user_activity :
        LET act == user_activity[u] IN
        /\ IsSuffix(act.minute, act.hour)
        /\ IsSuffix(act.hour, act.day)
        /\ Len(act.minute) <= Len(act.hour) /\ Len(act.hour) <= Len(act.day)
        /\ NonDecreasing(act.minute) /\ NonDecreasing(act.hour) /\ NonDecreasing(act.day)

\* C35, witness: a check has evicted from the minute window alone and then
\* recorded: the three windows differ in size and the day window holds two
\* different instants.
C35_Witness ==
    /\ last.op = "handle_message" /\ last.ret
    /\ last.user \in DOMAIN user_activity
    /\ LET act == user_activity[last.user] IN
       /\ act.minute # << >>
       /\ Len(act.minute) < Len(act.hour)
       /\ Len(act.hour) < Len(act.day)
       /\ act.day[1] < act.day[Len(act.day)]

\* C29: for every identity and every period, the calls of check_user_limit
\* that returned true at an instant inside the trailing period are at most
\* the limit of the period: 10 a minute, 100 an hour, 1000 a day.
C29_AcceptedWithinLimits ==
    \A u \in DOMAIN accepted_calls :
        \A P \in DOMAIN PeriodLength :
            Cardinality({ i \in DOMAIN accepted_calls[u][P] :
                            now - accepted_calls[u][P][i] < PeriodLength[P] })
                <= MESSAGE_LIMITS[P]

-----------------------------------------------------------------------------
(* Specification SpecFlight: lookups in flight.  handle_search is a         *)
(* coroutine; the event loop runs it from one await to the next without     *)
(* interruption, and between two awaits of one lookup it may run the steps  *)
(* of another.  The awaits of an accepted search: the status reply, the     *)
(* warning after a failed download, the scan handed to the thread pool      *)
(* (run_in_executor) and the replies with the result.                       *)

\* how many lookups may be suspended at the same time
MaxFlight == 2

\* how many search messages arrive during a run
MaxFlightOps == 3

\* how many times the Drive file changes during a run
MaxFlightMods == 1

\* the ids of the suspended coroutines
TaskIds == 1..MaxFlight

\* where a lookup is: "new" before its message is handled, then the await it
\* is suspended at
PcOf(i) == IF i \in DOMAIN tasks THEN tasks[i].pc ELSE "new"

\* a lookup whose steps all run on the thread pool
RunsOn_AllWorker(pc) == "worker"

\* the thread that runs the step a lookup takes from `pc`: the scan is the
\* only work given to the ThreadPoolExecutor, the rest runs on the event loop
RunsOn(pc) == IF pc = "scan" THEN "worker" ELSE "loop"

\* the rank of the latest freshness check among the lookups in flight; 0
\* when none has run its check
ChecksDone ==
    LET O == { tasks[i].order : i \in DOMAIN tasks } \cup {0}
    IN  CHOOSE n \in O : \A m \in O : m <= n

\* handle_message for "/s <serial number>" in a group, then handle_search up
\* to `await reply_text(search_start)`: the two rate-limit gates, the serial
\* numbers, the status reply.  `stale` remembers whether the recorded
\* modification time was behind the Drive's when the lookup started.
FlightStart(i, sender) ==
    /\ budget.msgs > 0
    /\ i \notin DOMAIN tasks
    /\ LET username == Key(sender)
           S0 == RateState(user_activity, banned_users, user_ban_times,
                           user_ban_start_times)
           R1 == check_user_limit(S0, username, now)
           R2 == IF R1.ret THEN check_user_limit(R1.S, username, now) ELSE R1
           current == get_file_modified_time(remote, LAST_FILE_ID[1], TRUE)
           op == [Op("handle_search", username)
                    EXCEPT !.calls = IF R1.ret THEN 2 ELSE 1, !.ret = R2.ret,
                           !.inp = [chat |-> "group", sender |-> sender.username,
                                    query |-> SerialQuery]]
       IN  /\ user_activity' = R2.S.ua
           /\ banned_users' = R2.S.bu
           /\ user_ban_times' = R2.S.bt
           /\ user_ban_start_times' = R2.S.bs
           /\ ban_count' = CountBans(S0, R2.S)
           /\ accepted_calls' =
                 LET A1 == Accepted(accepted_calls, username, now, R1.ret)
                 IN  IF R1.ret THEN Accepted(A1, username, now, R2.ret) ELSE A1
           /\ last' = op
           /\ IF R2.ret
              THEN /\ replies' = << Reply("search_start", 0) >>
                   /\ tasks' = DictSet(tasks, i,
                                 [pc |-> "check", user |-> username, dl |-> None,
                                  ok |-> FALSE, order |-> 0, rows |-> << >>,
                                  stale |-> SearchDownloadNeeded(current[1],
                                                                 LAST_FILE_DRIVE_TIME)])
              ELSE /\ replies' = RateReply(R2.S, username, now)
                   /\ UNCHANGED tasks
    /\ budget' = [budget EXCEPT !.msgs = @ - 1]
    /\ UNCHANGED << environ, now, accessVars, cacheVars, envVars >>

\* handle_search resumed after the status reply: the check of the preloaded
\* file, the metadata request, the comparison, the download and the record of
\* the new modification time, with no await in between; it suspends again at
\* the warning when the download failed, at the scan otherwise
FlightCheck(i, metaOk, outcome) ==
    /\ PcOf(i) = "check"
    /\ LET C == CacheState(LAST_FILE_ID, LAST_FILE_DATE, LAST_FILE_DRIVE_TIME,
                           LAST_FILE_LOCAL_PATH)
           L == lookup(C, localfs, remote, metaOk, outcome, now)
           ended == C.id = None \/ C.path = None \/ ~LocalFileExists(localfs, C.path[1])
           failed == L.dl # {} /\ L.cache.drive_time = C.drive_time
       IN  /\ LAST_FILE_DRIVE_TIME' = L.cache.drive_time
           /\ localfs' = L.fs
           /\ last' = [Op("handle_search", tasks[i].user)
                         EXCEPT !.meta_ok = L.meta_ok, !.meta_failed = L.meta_failed,
                                !.dl = L.dl]
           /\ replies' = IF ended THEN L.replies ELSE << >>
           /\ tasks' = IF ended THEN DictPop(tasks, i)
                       ELSE [tasks EXCEPT
                               ![i].pc = IF failed THEN "warn" ELSE "scan",
                               ![i].dl = IF L.dl # {} THEN Some(remote[C.id[1][2]])
                                         ELSE None,
                               ![i].ok = L.dl # {} /\ ~failed,
                               ![i].order = ChecksDone + 1]
    /\ UNCHANGED << environ, accepted_calls, now, rateVars, accessVars, LAST_FILE_ID, LAST_FILE_DATE,
                    LAST_FILE_LOCAL_PATH, remote, ban_count, budget >>

\* handle_search resumed to send `file_update_error`; it suspends at the scan
FlightWarn(i) ==
    /\ PcOf(i) = "warn"
    /\ tasks' = [tasks EXCEPT ![i].pc = "scan"]
    /\ replies' = << Reply("file_update_error", 0) >>
    /\ last' = Op("handle_search", tasks[i].user)
    /\ UNCHANGED << environ, accepted_calls, now, rateVars, accessVars, cacheVars, envVars, ban_count, budget >>

\* _search_by_number_sync on a thread of the pool: it opens the workbook at
\* LAST_FILE_LOCAL_PATH and collects the rows of the serial number
FlightScan(i) ==
    /\ PcOf(i) = "scan"
    /\ tasks' = [tasks EXCEPT ![i].pc = "reply",
                              ![i].rows = SearchReplies(localfs, LAST_FILE_LOCAL_PATH[1])]
    /\ last' = [Op("_search_by_number_sync", tasks[i].user)
                  EXCEPT !.scan = IF LAST_FILE_LOCAL_PATH[1] \in DOMAIN localfs
                                  THEN << localfs[LAST_FILE_LOCAL_PATH[1]].content >>
                                  ELSE << >>]
    /\ replies' = << >>
    /\ UNCHANGED << environ, accepted_calls, now, rateVars, accessVars, cacheVars, envVars, ban_count, budget >>

\* handle_search resumed with the rows: it sends them and ends
FlightReply(i) ==
    /\ PcOf(i) = "reply"
    /\ tasks' = DictPop(tasks, i)
    /\ replies' = tasks[i].rows
    /\ last' = Op("handle_search", tasks[i].user)
    /\ UNCHANGED << environ, accepted_calls, now, rateVars, accessVars, cacheVars, envVars, ban_count, budget >>

\* the senders of the searches in flight
FlightSenders == {SenderBob, SenderEve}

InitFlight ==
    /\ InitLoaded({})
    /\ budget = [msgs |-> MaxFlightOps, ticks |-> 0, mods |-> MaxFlightMods]

NextFlight ==
    \/ \E i \in TaskIds, sender \in FlightSenders : FlightStart(i, sender)
    \/ \E i \in TaskIds, metaOk \in BOOLEAN, outcome \in DownloadOutcomes :
          FlightCheck(i, metaOk, outcome)
    \/ \E i \in TaskIds : FlightWarn(i)
    \/ \E i \in TaskIds : FlightScan(i)
    \/ \E i \in TaskIds : FlightReply(i)
    \/ RemoteModify(Today(T0))

SpecFlight == InitFlight /\ [][NextFlight]_vars

\* the remote version the Drive holds for the cached file
DriveVersion == remote[LAST_FILE_ID[1][2]]

\* C22: the check-download-record section of a lookup runs without
\* suspension, so two lookups in flight at the same time never both download
\* the same remote version after the first download succeeded: when both have
\* downloaded the same version, the earlier download had failed and left the
\* recorded modification time behind.
C22_NoRedundantDownload ==
    \A a \in DOMAIN tasks, b \in DOMAIN tasks :
        (/\ a # b
         /\ tasks[a].dl # None
         /\ tasks[a].dl = tasks[b].dl
         /\ tasks[a].order < tasks[b].order) => ~tasks[a].ok

\* C22, witness: two lookups that started while the cached file was stale are
\* in flight; both have downloaded the version the Drive holds, the first
\* download failed and the second succeeded.
C22_Witness ==
    \E a \in DOMAIN tasks, b \in DOMAIN tasks :
        /\ a # b
        /\ tasks[a].stale /\ tasks[b].stale
        /\ tasks[a].dl = Some(DriveVersion)
        /\ tasks[b].dl = Some(DriveVersion)
        /\ tasks[a].order < tasks[b].order
        /\ ~tasks[a].ok /\ tasks[b].ok

\* C22 as stated: when two lookups that started while the cached file was
\* stale are in flight and one has downloaded the version the Drive holds,
\* the other, resumed at its freshness check, can download that version too.
C22_BothCanDownload ==
    \A a \in DOMAIN tasks, b \in DOMAIN tasks :
        (/\ a # b
         /\ tasks[a].stale /\ tasks[b].stale
         /\ tasks[a].dl = Some(DriveVersion)
         /\ tasks[b].pc = "check")
        => ENABLED (/\ FlightCheck(b, TRUE, "ok")
                    /\ tasks'[b].dl = Some(DriveVersion))

\* the activity table, the ban set, the two ban maps and the two lists
SharedTables == << user_activity, banned_users, user_ban_times, user_ban_start_times,
                   whitelist, blacklist >>

\* C23: a step that a lookup takes on a thread of the pool (the scan of the
\* workbook) leaves the activity table, the ban set, the ban maps, the
\* allow-list and the deny-list unchanged, and its rows are a function of the
\* local file alone; no step that changes one of these tables is a run of
\* _search_by_number_sync.
C23_WorkerLeavesTables ==
    [][/\ \A i \in TaskIds :
            (PcOf(i)' # PcOf(i) /\ RunsOn(PcOf(i)) = "worker") =>
                /\ UNCHANGED SharedTables
                /\ tasks'[i].rows = SearchReplies(localfs, LAST_FILE_LOCAL_PATH[1])
       /\ SharedTables' # SharedTables => last'.op # "_search_by_number_sync"
      ]_vars

\* C23, witness: a thread of the pool has just scanned the workbook for one
\* lookup while another lookup is suspended and the tables hold a banned
\* sender and recorded requests.
C23_Witness ==
    /\ last.op = "_search_by_number_sync"
    /\ \E i \in DOMAIN tasks, j \in DOMAIN tasks :
          /\ i # j
          /\ tasks[i].pc = "reply" /\ tasks[i].rows # << >>
          /\ tasks[i].user \in DOMAIN user_activity
    /\ banned_users # {}

-----------------------------------------------------------------------------
(* Specification SpecFrame: several senders, known and new to the limiter,  *)
(* whose requests are accepted, refused or meet a failing Drive, and an     *)
(* admin who resets one identity or all.                                    *)

\* how many messages and commands a run has
MaxFrameOps == 3

\* how many times the clock advances
MaxFrameTicks == 1

InitFrame ==
    /\ InitLoaded({})
    /\ budget = [msgs |-> MaxFrameOps, ticks |-> MaxFrameTicks, mods |-> 1]

NextFrame ==
    \/ \E s \in SearchSenders, outcome \in {"ok", "fail_after_open"} :
          GroupSearch(s, TRUE, outcome)
    \/ \E s \in SearchSenders : GroupText(s)
    \/ \E args \in ResetArgs : ResetBans(SenderAdmin, args)
    \/ RemoteModify(Today(T0))
    \/ Tick(60 * 60)

SpecFrame == InitFrame /\ [][NextFrame]_vars

\* every identity the limiter's tables name before or after the step
KnownIdentities ==
    DOMAIN user_activity \cup DOMAIN user_activity' \cup banned_users \cup banned_users'
    \cup DOMAIN user_ban_times \cup DOMAIN user_ban_times'
    \cup DOMAIN user_ban_start_times \cup DOMAIN user_ban_start_times'

\* the step leaves the windows, the ban membership, the ban start and the
\* ban duration of v as they were
Untouched(v) ==
    /\ (v \in DOMAIN user_activity) = (v \in DOMAIN user_activity')
    /\ v \in DOMAIN user_activity => user_activity'[v] = user_activity[v]
    /\ (v \in banned_users) = (v \in banned_users')
    /\ (v \in DOMAIN user_ban_start_times) = (v \in DOMAIN user_ban_start_times')
    /\ v \in DOMAIN user_ban_start_times =>
          user_ban_start_times'[v] = user_ban_start_times[v]
    /\ (v \in DOMAIN user_ban_times) = (v \in DOMAIN user_ban_times')
    /\ v \in DOMAIN user_ban_times => user_ban_times'[v] = user_ban_times[v]

\* C25: a step that handles a message of identity u, accepted, refused or
\* with a failed metadata request or download, leaves the windows, the ban
\* membership, the ban start and the ban duration of every other identity
\* unchanged; a step that changes them for more than one identity is an
\* admin's reset of 'all'.
C25_OtherIdentitiesUntouched ==
    [][/\ last'.op \in {"handle_message", "handle_search"} =>
            \A v \in KnownIdentities \ {last'.user} : Untouched(v)
       /\ Cardinality({ v \in KnownIdentities : ~Untouched(v) }) > 1 =>
            /\ last'.op = "reset_bans"
            /\ Lower(last'.inp.args[1]) = <<"a","l","l">>
      ]_vars

\* C25, witness: a message of one identity has just led to its ban while
\* another identity, not banned, has recorded requests.
C25_Witness ==
    /\ last.op \in {"handle_message", "handle_search"}
    /\ ~last.ret
    /\ last.user \in banned_users
    /\ user_ban_start_times[last.user] = now
    /\ \E w \in DOMAIN user_activity :
          w # last.user /\ w \notin banned_users /\ user_activity[w].minute # << >>

-----------------------------------------------------------------------------
(* Specification SpecStartup: the program is started in an environment in   *)
(* which any of the variables may be missing, and main runs.                *)

\* a start-up that only asks for the bot token
init_config_TokenOnly(env) == "TELEGRAM_TOKEN" \in env

\* init_config returns normally: get_credentials_path finds
\* GOOGLE_CREDS_BASE64, and none of TELEGRAM_TOKEN, PARENT_FOLDER_ID,
\* BLACKLIST_FILE_ID, WHITELIST_FILE_ID is empty
init_config(env) ==
    /\ "GOOGLE_CREDS_BASE64" \in env
    /\ "TELEGRAM_TOKEN" \in env
    /\ "PARENT_FOLDER_ID" \in env
    /\ "BLACKLIST_FILE_ID" \in env
    /\ "WHITELIST_FILE_ID" \in env

\* what main does after a successful init_config, in order
MainSteps == << "update_lists", "preload_latest_file", "add_handler", "run_polling" >>

\* main: init_config; on an exception a critical log and return; otherwise
\* the lists are loaded, the file is preloaded, the handlers are registered
\* and polling starts.  wl, bl: what the downloads of the two list files
\* give; drive: what the Drive does during the preload
Main(wl, bl, drive) ==
    /\ last.op = "exec"
    /\ IF init_config(environ)
       THEN /\ update_lists(wl.lines, wl.ok, bl.lines, bl.ok)
            /\ LET P == preload_latest_file(localfs, remote, now, drive)
               IN  /\ LAST_FILE_ID' = P.cache.id
                   /\ LAST_FILE_DATE' = P.cache.date
                   /\ LAST_FILE_DRIVE_TIME' = P.cache.drive_time
                   /\ LAST_FILE_LOCAL_PATH' = P.cache.path
                   /\ localfs' = P.fs
                   /\ last' = [Op("main", <<>>)
                                 EXCEPT !.meta_ok = P.meta_ok,
                                        !.meta_failed = P.meta_failed, !.dl = P.dl,
                                        !.inp = [steps |-> MainSteps, log |-> "info"]]
       ELSE /\ UNCHANGED << accessVars, cacheVars, localfs >>
            /\ last' = [Op("main", <<>>)
                          EXCEPT !.ret = FALSE,
                                 !.inp = [steps |-> << >>, log |-> "critical"]]
    /\ replies' = << >>
    /\ UNCHANGED << environ, accepted_calls, tasks, now, rateVars, remote, ban_count, budget >>

\* the program has been started: nothing is loaded, the Drive holds today's
\* file, any of the environment variables may be missing
InitStartup ==
    /\ now = T0
    /\ user_activity = FreshState.ua
    /\ banned_users = FreshState.bu
    /\ user_ban_times = FreshState.bt
    /\ user_ban_start_times = FreshState.bs
    /\ ban_count = EmptyDict
    /\ accepted_calls = EmptyDict
    /\ whitelist = {}
    /\ blacklist = {}
    /\ LAST_FILE_ID = None
    /\ LAST_FILE_DATE = None
    /\ LAST_FILE_DRIVE_TIME = None
    /\ LAST_FILE_LOCAL_PATH = None
    /\ remote = DictSet(EmptyDict, Today(T0), T0 - 60)
    /\ localfs = EmptyDict
    /\ last = Op("exec", <<>>)
    /\ replies = << >>
    /\ tasks = EmptyDict
    /\ budget = [msgs |-> 0, ticks |-> 0, mods |-> 0]
    /\ environ \in SUBSET EnvNames

NextStartup ==
    \E wl \in ListFetches, bl \in ListFetches, drive \in [DOMAIN remote -> DriveOutcomes] :
        Main(wl, bl, drive)

SpecStartup == InitStartup /\ [][NextStartup]_vars

\* the variables the start-up requires: the credentials, the bot token, the
\* parent folder id, the allow-list file id and the deny-list file id
RequiredAtStartup ==
    {"GOOGLE_CREDS_BASE64", "TELEGRAM_TOKEN", "PARENT_FOLDER_ID", "WHITELIST_FILE_ID",
     "BLACKLIST_FILE_ID"}

\* C26: when one of the required environment variables is missing, main ends
\* with a critical log and has loaded no list, preloaded no file, registered
\* no handler and started no polling.
C26_MissingVariableStopsMain ==
    (last.op = "main" /\ ~(RequiredAtStartup \subseteq environ)) =>
        /\ ~last.ret
        /\ last.inp.log = "critical"
        /\ last.inp.steps = << >>
        /\ whitelist = {} /\ blacklist = {}
        /\ LAST_FILE_ID = None /\ LAST_FILE_LOCAL_PATH = None
        /\ localfs = EmptyDict
        /\ last.meta_ok = {} /\ last.dl = {}

\* C26, witness: main has ended at the critical log because only the
\* deny-list file id was missing, on a Drive that holds today's file.
C26_Witness ==
    /\ last.op = "main"
    /\ environ = EnvNames \ {"BLACKLIST_FILE_ID"}
    /\ last.inp.log = "critical"
    /\ Today(now) \in DOMAIN remote

-----------------------------------------------------------------------------
(* Specification SpecBanned: the commands and the group messages of an     *)
(* admin whom the rate limiter has banned.                                 *)

\* how many group messages, resets and refreshes a run has
MaxBannedOps == 2

\* an admin whose handle has upper-case letters
SenderAdminCaps == Sender(<<"Y","o","p","t","V","a","y","o","u">>, <<"2">>)

BannedAdmins == {SenderAdmin, SenderAdminCaps}

\* the context.args of /reset_bans: everything, the admin's own handle
BannedResetArgs ==
    { << <<"a","l","l">> >>, << <<"y","o","p","t","v","a","y","o","u">> >>,
      << <<"@","Y","o","p","t","V","a","y","o","u">> >> }

\* main has run as in InitLoaded; then an admin wrote eleven messages to a
\* group at T0 and the eleventh banned it
InitBanned ==
    /\ now = T0
    /\ \E a \in BannedAdmins :
         LET H == Replay(Key(a), HistBanned) IN
         /\ user_activity = H.S.ua
         /\ banned_users = H.S.bu
         /\ user_ban_times = H.S.bt
         /\ user_ban_start_times = H.S.bs
         /\ ban_count = DictSet(EmptyDict, Key(a), H.bans)
         /\ accepted_calls = H.acc
    /\ whitelist = download_list({ <<"@","B","o","b">> }, TRUE)
    /\ blacklist = download_list({ <<" ","e","v","e"," ">>, << >> }, TRUE)
    /\ remote = DictSet(EmptyDict, Today(T0), T0 - 60)
    /\ LET P == preload_latest_file(EmptyDict, remote, T0,
                                    [d \in DOMAIN remote |-> "ok"])
       IN  /\ LAST_FILE_ID = P.cache.id
           /\ LAST_FILE_DATE = P.cache.date
           /\ LAST_FILE_DRIVE_TIME = P.cache.drive_time
           /\ LAST_FILE_LOCAL_PATH = P.cache.path
           /\ localfs = P.fs
    /\ last = Op("main", <<>>)
    /\ replies = <<>>
    /\ tasks = EmptyDict
    /\ environ = EnvNames
    /\ budget = [msgs |-> MaxBannedOps, ticks |-> 0, mods |-> 0]

NextBanned ==
    \/ \E s \in BannedAdmins : GroupText(s)
    \/ \E s \in BannedAdmins, args \in BannedResetArgs : ResetBans(s, args)
    \/ \E s \in BannedAdmins, wl \in AdminFetches :
          ReloadLists(s, wl.lines, wl.ok, LinePool, TRUE)
    \/ \E s \in BannedAdmins, args \in AdminArgs, writeOk \in BOOLEAN :
          ManageWhitelist(s, args, TRUE, writeOk)
    \/ \E s \in BannedAdmins, args \in AdminArgs : ManageBlacklist(s, args, TRUE, TRUE)
    \/ \E s \in BannedAdmins, metaOk \in BOOLEAN : Refresh(s, metaOk, "ok")

SpecBanned == InitBanned /\ [][NextBanned]_vars

\* the replies that refuse a command or a message
RefusalCodes == {"admin_only", "denied", "slow_down", "ddos_blocked"}

\* C37: a reset-limits, reload-lists, refresh or list command of an admin
\* who is in the ban set makes no rate-limit check and is not refused; the
\* commands other than the reset leave the limiter's tables alone, and the
\* reset of everything takes the admin out of the ban set and drops its ban
\* record.
C37_BannedAdminCommands ==
    [][\A a \in BannedAdmins :
          (/\ Key(a) \in banned_users
           /\ last'.op \in AdminCommands /\ last'.user = a.username)
          => /\ last'.calls = 0
             /\ \A i \in DOMAIN replies' : replies'[i].code \notin RefusalCodes
             /\ last'.op # "reset_bans" => UNCHANGED rateVars
             /\ (last'.op = "reset_bans"
                 /\ Lower(last'.inp.args[1]) = <<"a","l","l">>)
                => /\ Key(a) \notin banned_users'
                   /\ Key(a) \notin DOMAIN user_ban_start_times'
                   /\ Key(a) \notin DOMAIN user_ban_times' ]_vars

\* C37, witness: an admin banned at start has reset everything, and its next
\* group message has been accepted and recorded as the only one.
C37_Witness ==
    /\ last.op = "handle_message" /\ last.ret
    /\ IsAdmin(last.user)
    /\ last.user \notin banned_users
    /\ user_activity = DictSet(EmptyDict, last.user, Record(EmptyActivity, now))

====
